---- MODULE Spec2Model ----
(***************************************************************************)
(* Model of the Hanchu ESS integration's statistics backfill               *)
(* (custom_components/hanchu/__init__.py): the import_statistics service   *)
(* handler, the hourly-fraction estimator, and the recorder (statistics    *)
(* sink), cloud client and entity registry it talks to.                    *)
(*                                                                         *)
(* Python floats are modelled as binary floating-point numbers with        *)
(* MantissaBits significant bits and round-to-nearest-even, the IEEE-754   *)
(* rule of binary64 at a smaller width.  A float is a record [m, e] that   *)
(* stands for m * 2^e, normalised so that 2^(MantissaBits-1) <= |m| <      *)
(* 2^MantissaBits, or m = 0 and e = 0.                                     *)
(*                                                                         *)
(* Instants are counted in whole hours since the epoch (UTC); calendar     *)
(* days are local day numbers since the epoch; sample timestamps are in    *)
(* milliseconds since the epoch, as the cloud sends them.                  *)
(***************************************************************************)
EXTENDS Integers, Sequences, FiniteSets, TLC

\* ------------------------------------------------------------------ bounds
MantissaBits == 11   \* significant bits of a float (binary64 has 53)
NumDays == 2         \* calendar days a backfill range may cover
FirstDay == 10       \* day number of the first such day
MaxRuns == 2         \* invocations of the service in one behaviour

\* ----------------------------------------------------------- float numbers
Abs(n) == IF n < 0 THEN -n ELSE n

\* The number of bits of n >= 0.
RECURSIVE BitLen(_)
BitLen(n) ==
    IF n < 2 THEN n
    ELSE IF n >= 65536 THEN 16 + BitLen(n \div 65536)
    ELSE IF n >= 256 THEN 8 + BitLen(n \div 256)
    ELSE IF n >= 16 THEN 4 + BitLen(n \div 16)
    ELSE IF n >= 4 THEN 2 + BitLen(n \div 4)
    ELSE 1 + BitLen(n \div 2)

Zero == [m |-> 0, e |-> 0]

\* The float nearest to n * 2^e (ties to even).
Round(n, e) ==
    IF n = 0 THEN Zero
    ELSE LET a == Abs(n)
             sg == IF n < 0 THEN -1 ELSE 1
             L == BitLen(a)
         IN IF L <= MantissaBits
            THEN [m |-> sg * a * 2^(MantissaBits - L), e |-> e - (MantissaBits - L)]
            ELSE LET s == L - MantissaBits
                     q == a \div 2^s
                     r == a % 2^s
                     half == 2^(s - 1)
                     q2 == IF r > half \/ (r = half /\ q % 2 = 1) THEN q + 1 ELSE q
                 IN IF q2 = 2^MantissaBits
                    THEN [m |-> sg * 2^(MantissaBits - 1), e |-> e + s + 1]
                    ELSE [m |-> sg * q2, e |-> e + s]

\* float(n) for an integer n.
FromInt(n) == Round(n, 0)

FNeg(x) == [m |-> -(x.m), e |-> x.e]

\* x + y
FAdd(x, y) ==
    IF x.m = 0 THEN y
    ELSE IF y.m = 0 THEN x
    ELSE IF x.e - y.e > MantissaBits + 2 THEN x
    ELSE IF y.e - x.e > MantissaBits + 2 THEN y
    ELSE LET lo == IF x.e < y.e THEN x.e ELSE y.e
         IN Round(x.m * 2^(x.e - lo) + y.m * 2^(y.e - lo), lo)

\* x * y
FMul(x, y) == Round(x.m * y.m, x.e + y.e)

\* x / y for y # 0: the quotient carries two guard bits and a sticky bit.
FDiv(x, y) ==
    IF x.m = 0 THEN Zero
    ELSE LET sg == IF (x.m < 0) = (y.m < 0) THEN 1 ELSE -1
             num == Abs(x.m) * 2^(MantissaBits + 2)
             den == Abs(y.m)
             q == num \div den
             sticky == IF num % den = 0 THEN 0 ELSE 1
         IN Round(sg * (2 * q + sticky), x.e - y.e - (MantissaBits + 2) - 1)

\* x < y
FLt(x, y) ==
    IF x.m = 0 THEN y.m > 0
    ELSE IF y.m = 0 THEN x.m < 0
    ELSE IF (x.m > 0) # (y.m > 0) THEN x.m < 0
    ELSE IF x.m > 0 THEN x.e < y.e \/ (x.e = y.e /\ x.m < y.m)
    ELSE x.e > y.e \/ (x.e = y.e /\ x.m < y.m)

\* x <= y
FLe(x, y) == x = y \/ FLt(x, y)

\* max(x, 0.0)
FMax0(x) == IF FLt(Zero, x) THEN x ELSE Zero

\* The float a JSON decimal n/d parses to.
Dec(n, d) == FDiv(FromInt(n), FromInt(d))

\* sum(values): left fold of + starting from 0.
RECURSIVE FSum(_)
FSum(values) ==
    IF values = <<>> THEN Zero
    ELSE FAdd(FSum(SubSeq(values, 1, Len(values) - 1)), values[Len(values)])

\* ---------------------------------------------------------------- mappings
\* _FLOW_TO_SENSOR and its iteration (insertion) order.
FLOW_TO_SENSOR ==
    [pv |-> "solar_energy_today", gridImport |-> "grid_import_today",
     gridExport |-> "grid_export_today", batCharge |-> "battery_charge_today",
     batDisCharge |-> "battery_discharge_today", load |-> "load_energy_today"]

FlowOrder == <<"pv", "gridImport", "gridExport", "batCharge", "batDisCharge", "load">>

FlowKeys == DOMAIN FLOW_TO_SENSOR

\* _MINUTE_FIELD_TO_SENSOR and its iteration order.
MINUTE_FIELD_TO_SENSOR ==
    [pvTtPwr |-> "solar_power", batP |-> "battery_power",
     meterPPwr |-> "grid_power", loadEpsPwr |-> "load_power"]

FieldOrder == <<"pvTtPwr", "batP", "meterPPwr", "loadEpsPwr">>

FieldKeys == DOMAIN MINUTE_FIELD_TO_SENSOR

PowerSensorKeys == {MINUTE_FIELD_TO_SENSOR[f] : f \in FieldKeys}

\* -------------------------------------------------------------------- time
MsPerHour == 3600000
LookbackDays == 7
UtcOffsetHours == 1      \* the configured time zone, a fixed offset east of UTC

\* datetime.combine(day, time.min).replace(tzinfo=tz), as an instant in hours.
Midnight(day) == day * 24 - UtcOffsetHours

\* int(midnight.timestamp() * 1000)
MidnightMs(day) == Midnight(day) * MsPerHour

\* datetime.fromtimestamp(ts_ms / 1000, tz=tz).hour
LocalHour(ts_ms) == ((ts_ms \div MsPerHour) + UtcOffsetHours) % 24

\* Variant: the samples are bucketed by their local hour of day.
HourStartOfDay(ts_ms) == LocalHour(ts_ms)

\* ts_dt.replace(minute=0, second=0, microsecond=0), as an instant in hours.
HourStart(ts_ms) == ts_ms \div MsPerHour

\* dict.get: a key the dict lacks reads as None.
Has(point, key) == key \in DOMAIN point

\* "if not ts_ms": a sample without a timestamp (missing or 0) is skipped.
HasTs(point) == Has(point, "dataTimeTs") /\ point["dataTimeTs"] # 0

\* --------------------------------------------------- hourly-fraction estimator
\* Variant: 1 // 24, the integer quotient.
UniformIntDiv == [h \in 1..24 |-> FromInt(1 \div 24)]

\* _uniform, and the "1.0 / 24.0" of the energy loop.
Uniform == [h \in 1..24 |-> FDiv(FromInt(1), FromInt(24))]

\* hourly[hour][field]: the readings of a field in one local hour, in order.
RECURSIVE HourlyReadings(_, _, _)
HourlyReadings(minute_data, hour, field) ==
    IF minute_data = <<>> THEN <<>>
    ELSE LET point == Head(minute_data)
         IN (IF HasTs(point) /\ LocalHour(point["dataTimeTs"]) = hour /\ Has(point, field)
             THEN <<FromInt(point[field])>> ELSE <<>>)
            \o HourlyReadings(Tail(minute_data), hour, field)

\* sum(readings) / len(readings), or 0.0 for no readings.
MeanOf(readings) ==
    IF readings = <<>> THEN Zero ELSE FDiv(FSum(readings), FromInt(Len(readings)))

\* means[field]: index h+1 holds local hour h.
Means(minute_data, field) ==
    [h \in 1..24 |-> MeanOf(HourlyReadings(minute_data, h - 1, field))]

\* Variant: no fallback to the uniform vector.
NormWithoutFallback(values) == [h \in 1..24 |-> FDiv(values[h], FSum(values))]

\* _norm
Norm(values) ==
    LET total == FSum(values)
    IN IF FLt(Zero, total) THEN [h \in 1..24 |-> FDiv(values[h], total)] ELSE Uniform

Positive(values) == [h \in 1..24 |-> FMax0(values[h])]

\* Variant: max(v, 0.0), the sign flip forgotten.
NegativeUnflipped(values) == [h \in 1..24 |-> FMax0(values[h])]

Negative(values) == [h \in 1..24 |-> FMax0(FNeg(values[h]))]

\* The entry of one flow in the dict _compute_hourly_fractions returns.
HourlyFractions(minute_data, flow_key) ==
    CASE flow_key = "pv" -> Norm(Means(minute_data, "pvTtPwr"))
      [] flow_key = "load" -> Norm(Means(minute_data, "loadEpsPwr"))
      [] flow_key = "batCharge" -> Norm(Positive(Means(minute_data, "batP")))
      [] flow_key = "batDisCharge" -> Norm(Negative(Means(minute_data, "batP")))
      [] flow_key = "gridImport" -> Norm(Positive(Means(minute_data, "meterPPwr")))
      [] flow_key = "gridExport" -> Norm(Negative(Means(minute_data, "meterPPwr")))

compute_hourly_fractions(minute_data) ==
    [flow_key \in FlowKeys |-> HourlyFractions(minute_data, flow_key)]

\* ------------------------------------------------------- one day of the loop
\* float(day_data.get(flow_key) or 0.0)
DailyValue(day_data, flow_key) ==
    IF Has(day_data, flow_key) THEN day_data[flow_key] ELSE Zero

\* fracs[hour] if fracs else 1.0 / 24.0
FracsFor(minute_data, flow_key) ==
    IF minute_data # <<>> THEN HourlyFractions(minute_data, flow_key) ELSE Uniform

\* The StatisticData rows of the hours hour..23 of one flow and day, cum being
\* the value of the accumulator before the hour.
RECURSIVE HourRows(_, _, _, _, _, _)
HourRows(day, daily_value, fracs, sum_before, cum, hour) ==
    IF hour = 24 THEN <<>>
    ELSE LET hourly_value == FMul(daily_value, fracs[hour + 1])
             cum2 == FAdd(cum, hourly_value)
         IN <<[start |-> Midnight(day) + hour,
               state |-> hourly_value,
               sum |-> FAdd(sum_before, cum2)]>>
            \o HourRows(day, daily_value, fracs, sum_before, cum2, hour + 1)

\* Variant: the day's sums start from 0.0, not from sum_before.
EnergyRowsFromZero(day, daily_value, fracs, sum_before) ==
    HourRows(day, daily_value, fracs, Zero, Zero, 0)

\* The 24 rows one flow gets for one day.
EnergyRows(day, daily_value, fracs, sum_before) ==
    HourRows(day, daily_value, fracs, sum_before, Zero, 0)

\* The distinct hour starts of the samples, in order of first appearance
\* (the insertion order of hourly_buckets).
RECURSIVE BucketKeys(_, _)
BucketKeys(minute_data, seen) ==
    IF minute_data = <<>> THEN <<>>
    ELSE LET point == Head(minute_data)
         IN IF HasTs(point) /\ HourStart(point["dataTimeTs"]) \notin seen
            THEN <<HourStart(point["dataTimeTs"])>>
                 \o BucketKeys(Tail(minute_data), seen \cup {HourStart(point["dataTimeTs"])})
            ELSE BucketKeys(Tail(minute_data), seen)

\* hourly_buckets[hour_start][field]
RECURSIVE BucketReadings(_, _, _)
BucketReadings(minute_data, hour_start, field) ==
    IF minute_data = <<>> THEN <<>>
    ELSE LET point == Head(minute_data)
         IN (IF HasTs(point) /\ HourStart(point["dataTimeTs"]) = hour_start /\ Has(point, field)
             THEN <<FromInt(point[field])>> ELSE <<>>)
            \o BucketReadings(Tail(minute_data), hour_start, field)

\* The rows one day appends to power_stats[sensor_key of field].
RECURSIVE PowerRows(_, _, _)
PowerRows(minute_data, keys, field) ==
    IF keys = <<>> THEN <<>>
    ELSE LET readings == BucketReadings(minute_data, Head(keys), field)
         IN (IF readings # <<>>
             THEN <<[start |-> Head(keys), mean |-> FDiv(FSum(readings), FromInt(Len(readings)))]>>
             ELSE <<>>)
            \o PowerRows(minute_data, Tail(keys), field)

FieldOf(sensor_key) == CHOOSE f \in FieldKeys : MINUTE_FIELD_TO_SENSOR[f] = sensor_key

\* -------------------------------------------------------- registry and sink
INVERTER_SN == "INV"
BATTERY_SN == "BAT"

\* The unique id f"{sn}_{sensor_key}"; a registered unique id resolves to an
\* entity id, which the model writes as the same pair.
UniqueId(sn, sensor_key) == <<sn, sensor_key>>

EnergyIds == {UniqueId(INVERTER_SN, FLOW_TO_SENSOR[f]) : f \in FlowKeys}

PowerIds == {UniqueId(INVERTER_SN, k) : k \in PowerSensorKeys}

RackPowerId == UniqueId(BATTERY_SN, "rack_power")

AllIds == EnergyIds \cup PowerIds \cup {RackPowerId}

\* Rows sorted by start ascending, rows of equal start keeping their order
\* (list.sort is stable).
RECURSIVE InsertByStart(_, _)
InsertByStart(sorted, row) ==
    IF sorted = <<>> THEN <<row>>
    ELSE IF sorted[Len(sorted)].start <= row.start THEN Append(sorted, row)
    ELSE Append(InsertByStart(SubSeq(sorted, 1, Len(sorted) - 1), row), sorted[Len(sorted)])

\* Variant: the rows are left in the order they were buffered in.
Unsorted(rows) == rows

RECURSIVE SortByStart(_)
SortByStart(rows) ==
    IF rows = <<>> THEN <<>>
    ELSE InsertByStart(SortByStart(SubSeq(rows, 1, Len(rows) - 1)), rows[Len(rows)])

\* The rows of a set in start order (the sink holds one row per start).
RECURSIVE RowsInOrder(_)
RowsInOrder(rowset) ==
    IF rowset = {} THEN <<>>
    ELSE LET first == CHOOSE r \in rowset : \A q \in rowset : r.start <= q.start
         IN <<first>> \o RowsInOrder(rowset \ {first})

\* statistics_during_period(hass, lo, hi, ids, "hour", None, {"sum"}): for each
\* id that has rows with lo <= start < hi, those rows in start order.
statistics_during_period(snk, lo, hi, ids) ==
    LET window(id) == {r \in snk[id] : lo <= r.start /\ r.start < hi}
    IN [id \in {i \in ids : window(i) # {}} |-> RowsInOrder(window(id))]

\* async_import_statistics: a row replaces the stored row of the same start.
RECURSIVE ImportRows(_, _)
ImportRows(rowset, rows) ==
    IF rows = <<>> THEN rowset
    ELSE LET row == Head(rows)
         IN ImportRows({r \in rowset : r.start # row.start} \cup {row}, Tail(rows))

RECURSIVE ApplyWrites(_, _)
ApplyWrites(snk, writes) ==
    IF writes = <<>> THEN snk
    ELSE LET w == Head(writes)
         IN ApplyWrites([snk EXCEPT ![w.statistic_id] = ImportRows(@, w.rows)], Tail(writes))

\* ----------------------------------------------------------- the environment
Days == FirstDay..(FirstDay + NumDays - 1)

\* Daily totals (sumData) the cloud may return for a day; a missing key reads
\* as 0.0.
TotalsA ==
    [pv |-> Dec(7, 10), gridImport |-> FromInt(24), gridExport |-> Zero,
     batCharge |-> FromInt(1), batDisCharge |-> Dec(1, 2), load |-> FromInt(12)]

TotalsB == [gridImport |-> FromInt(24), load |-> Dec(1, 10)]

DailyTotals == {TotalsA, TotalsB}

\* Minute samples the cloud may return for a day: out of time order, with
\* fields missing, and one sample without a timestamp.
SamplesA(day) ==
    <<[dataTimeTs |-> MidnightMs(day) + MsPerHour + 60000,
       pvTtPwr |-> 100, batP |-> 100, meterPPwr |-> -200, loadEpsPwr |-> 200],
      [dataTimeTs |-> MidnightMs(day) + 300000,
       pvTtPwr |-> 0, batP |-> -50, meterPPwr |-> 30, loadEpsPwr |-> 100],
      [dataTimeTs |-> MidnightMs(day) + MsPerHour + 120000, pvTtPwr |-> 200, batP |-> 2500],
      [pvTtPwr |-> 999, batP |-> 1],
      [dataTimeTs |-> MidnightMs(day) + 23 * MsPerHour, meterPPwr |-> 30, loadEpsPwr |-> 0]>>

\* Another answer: a battery series of +100, -50, 0, +30 over four hours, a
\* negative solar reading, and a last sample that lies in the first hour of
\* the next day.
SamplesB(day) ==
    <<[dataTimeTs |-> MidnightMs(day) + 5 * MsPerHour + 60000, pvTtPwr |-> 300, batP |-> 30],
      [dataTimeTs |-> MidnightMs(day) + 2 * MsPerHour, pvTtPwr |-> -100, batP |-> 100,
       meterPPwr |-> -200],
      [dataTimeTs |-> MidnightMs(day) + 3 * MsPerHour + 120000, batP |-> -50, loadEpsPwr |-> 100],
      [dataTimeTs |-> MidnightMs(day) + 4 * MsPerHour, batP |-> 0],
      [dataTimeTs |-> MidnightMs(day + 1) + 60000, pvTtPwr |-> 50, loadEpsPwr |-> 100]>>

\* The cloud has the second answer for the first day only.
MinuteLists(day) ==
    {<<>>, SamplesA(day)} \cup (IF day = FirstDay THEN {SamplesB(day)} ELSE {})

\* What async_fetch_energy_flow does: returns sumData, raises HanchuApiError,
\* or lets another exception (transport, timeout) through.
EnergyResponses ==
    {[kind |-> "api_error"], [kind |-> "error"]}
    \cup {[kind |-> "ok", data |-> t] : t \in DailyTotals}

\* What async_fetch_power_minute_chart does.
MinuteResponses(day) ==
    {[kind |-> "api_error"], [kind |-> "error"]}
    \cup {[kind |-> "ok", data |-> l] : l \in MinuteLists(day)}

\* How the seeding block can fail: not at all, in the query, or in reading
\* the row returned for one flow.
SeedFaults == {"none", "query", "batCharge"}

\* Sums the live recorder has reached for each flow.
LiveSum == [pv |-> 100, gridImport |-> 40, gridExport |-> 0,
            batCharge |-> 7, batDisCharge |-> 7, load |-> 250]

LiveRow(start, total) == [start |-> start, state |-> FromInt(total), sum |-> FromInt(total)]

FlowOfId(id) == CHOOSE f \in FlowKeys : UniqueId(INVERTER_SN, FLOW_TO_SENSOR[f]) = id

\* No statistics yet.
SinkEmpty == [id \in AllIds |-> {}]

\* The live recorder has rows just before the first day, in its first hour,
\* and just after the last day; its sums grow by one an hour.
SinkLive ==
    [id \in AllIds |->
        IF id \in EnergyIds
        THEN LET base == LiveSum[FlowOfId(id)]
             IN {LiveRow(Midnight(FirstDay) - 2, base),
                 LiveRow(Midnight(FirstDay) - 1, base + 1),
                 LiveRow(Midnight(FirstDay), base + 2),
                 LiveRow(Midnight(FirstDay + NumDays), base + 3)}
        ELSE {}]

\* Only rows older than the lookback, except: grid import has a recent row
\* without a sum, and load has a row exactly LookbackDays before the first day.
SinkOld ==
    [id \in AllIds |->
        IF id \in EnergyIds
        THEN LET f == FlowOfId(id)
                 old == LiveRow(Midnight(FirstDay - LookbackDays) - 1, LiveSum[f])
             IN IF f = "gridImport"
                THEN {old, [start |-> Midnight(FirstDay) - 1, state |-> FromInt(1)]}
                ELSE IF f = "load"
                THEN {old, LiveRow(Midnight(FirstDay - LookbackDays), LiveSum[f] + 1)}
                ELSE {old}
        ELSE {}]

RegFull == AllIds

RegPartial ==
    AllIds \ {UniqueId(INVERTER_SN, "grid_export_today"),
              UniqueId(INVERTER_SN, "battery_power"),
              UniqueId(INVERTER_SN, "load_power")}

RegPowerOnly == PowerIds

\* Installations the handler may run in.
Scenarios ==
    {[entity_reg |-> RegFull, battery_sn |-> BATTERY_SN, sink |-> SinkLive],
     [entity_reg |-> RegPartial, battery_sn |-> BATTERY_SN, sink |-> SinkOld],
     [entity_reg |-> RegPowerOnly, battery_sn |-> "", sink |-> SinkEmpty]}

\* ------------------------------------------------------------------ state
VARIABLES
    entity_reg,         \* registered unique ids (the entity registry)
    battery_sn,         \* CONF_BATTERY_SN of the config entry, "" if unset
    sink,               \* recorder statistics: statistic id -> set of rows
    notices,            \* persistent notifications created
    pc,                 \* where the handler is: idle, seed, loop, minute, done, aborted
    start_date, end_date, include_power,
    sensor_entity_ids, current, running_sums, stats, power_stats,
    imported_days, power_days, day_data,
    seed_fault,         \* history: how seeding failed in this invocation
    seed_sums,          \* history: running_sums right after seeding
    log,                \* history: per fetched day, what the cloud answered
    sink_before,        \* history: the sink when the invocation started
    sink_writes,        \* history: async_import_statistics calls of this invocation
    runs                \* history: the finished invocations

locals == <<start_date, end_date, include_power, sensor_entity_ids, current,
            running_sums, stats, power_stats, imported_days, power_days, day_data>>

history == <<seed_fault, seed_sums, log, sink_before, sink_writes, runs>>

\* The cloud client of the config entry (HanchuApi) and the clock it reads.
VARIABLES
    token,              \* HanchuApi._token
    now,                \* time.time(), in half days
    last_post           \* history: what the last call of _post did

client == <<token, now, last_post>>

\* The config entries of the integration and the service they register.
VARIABLES
    entry_state,        \* per config entry: not_loaded, refresh, forward, loaded, unloading
    domain_data,        \* hass.data[DOMAIN]: the entry ids, in insertion order
    registrations,      \* registrations of import_statistics in the service registry
    picked              \* history: the entries the last service call took its api and SN from

entries == <<entry_state, domain_data, registrations, picked>>

\* The start instants of a day's rows in a time zone with clock changes.
VARIABLES
    time_zone,          \* hass.config.time_zone
    zone_day,           \* the day (current) the rows are built for
    starts              \* start of the rows built for it so far, as instants (hours)

zone == <<time_zone, zone_day, starts>>

\* Two invocations of the handler in flight at the same time.
VARIABLES
    calls               \* per invocation: its arguments, its locals and what it handed over

\* What the handler never touches.
others == <<client, entries, zone, calls>>

handler == <<entity_reg, battery_sn, sink, notices, pc, locals, history>>

\* What the client never touches.
not_client == <<handler, entries, zone, calls>>

\* What setting up and unloading entries never touches.
not_entries == <<handler, client, zone, calls>>

\* What building the starts never touches.
not_zone == <<handler, client, entries, calls>>

\* What the two invocations never touch: all but their locals, the sink and
\* the notifications.
not_calls == <<entity_reg, battery_sn, pc, locals, history, client, entries, zone>>

vars == <<handler, others>>

ZeroSums == [k \in FlowKeys |-> Zero]

\* No token is cached yet.
NoToken == [kind |-> "none", exp |-> 0]

NoPost == [at |-> 0, login |-> "none", raised |-> "none", access_token |-> NoToken]

\* HanchuApi.__init__
ClientInit ==
    /\ token = NoToken
    /\ now = 0
    /\ last_post = NoPost

\* The service has not been called yet.
HandlerInit ==
    /\ \E sc \in Scenarios :
        /\ entity_reg = sc.entity_reg
        /\ battery_sn = sc.battery_sn
        /\ sink = sc.sink
    /\ notices = <<>>
    /\ pc = "idle"
    /\ start_date = FirstDay
    /\ end_date = FirstDay
    /\ include_power = FALSE
    /\ sensor_entity_ids = <<>>
    /\ current = FirstDay
    /\ running_sums = ZeroSums
    /\ stats = [k \in FlowKeys |-> <<>>]
    /\ power_stats = <<>>
    /\ imported_days = 0
    /\ power_days = 0
    /\ day_data = <<>>
    /\ seed_fault = "none"
    /\ seed_sums = ZeroSums
    /\ log = <<>>
    /\ sink_before = sink
    /\ sink_writes = <<>>
    /\ runs = <<>>

NumEntries == 2      \* config entries of the integration

\* hass.config_entries.async_entries(DOMAIN): the configured entries in
\* their order, loaded or not; the inverter SN of an entry is unique to it.
ConfigEntries == [i \in 1..NumEntries |-> i]

EntryIds == 1..NumEntries

NoPick == [api |-> 0, inverter_sn |-> 0]

\* Home Assistant has started and no entry is set up yet.
NoEntryLoaded ==
    /\ entry_state = [e \in EntryIds |-> "not_loaded"]
    /\ domain_data = <<>>
    /\ registrations = 0
    /\ picked = NoPick

\* The first entry is set up, the others are not.
FirstEntryLoaded ==
    /\ entry_state = [e \in EntryIds |-> IF e = 1 THEN "loaded" ELSE "not_loaded"]
    /\ domain_data = <<1>>
    /\ registrations = 1
    /\ picked = NoPick

\* The time zone of the handler above: UtcOffsetHours all year.
FixedZone == [std |-> UtcOffsetHours, forward |-> 0, back |-> 0]

FixedZoneConfigured ==
    /\ time_zone = FixedZone
    /\ zone_day = FirstDay
    /\ starts = <<>>

CallIds == {1, 2}

\* The locals of an invocation that has not begun.
IdleCall ==
    [pc |-> "idle", start_date |-> FirstDay, end_date |-> FirstDay, current |-> FirstDay,
     running_sums |-> ZeroSums, stats |-> [k \in FlowKeys |-> <<>>], imported_days |-> 0,
     seed_sums |-> ZeroSums, log |-> <<>>, writes |-> <<>>]

NoCalls == calls = [c \in CallIds |-> IdleCall]

Init ==
    /\ HandlerInit
    /\ ClientInit
    /\ FirstEntryLoaded
    /\ FixedZoneConfigured
    /\ NoCalls

\* ------------------------------------------------ the handler: before the loop
Registered(sn, sensor_key) == UniqueId(sn, sensor_key) \in entity_reg

FlowIndex(flow_key) == CHOOSE i \in 1..Len(FlowOrder) : FlowOrder[i] = flow_key

\* sensor_entity_ids as the registry lookup of every flow builds it.
ResolveFlows ==
    [f \in {k \in FlowKeys : Registered(INVERTER_SN, FLOW_TO_SENSOR[k])} |->
        UniqueId(INVERTER_SN, FLOW_TO_SENSOR[f])]

\* The handler up to the await of the seeding query.
Start(s, e, p) ==
    /\ start_date' = s
    /\ end_date' = e
    /\ include_power' = p
    /\ sensor_entity_ids' = ResolveFlows
    /\ current' = s
    /\ running_sums' = ZeroSums
    /\ stats' = [k \in FlowKeys |-> <<>>]
    /\ power_stats' = IF p THEN [k \in PowerSensorKeys |-> <<>>] ELSE <<>>
    /\ imported_days' = 0
    /\ power_days' = 0
    /\ day_data' = <<>>
    /\ seed_fault' = "none"
    /\ seed_sums' = ZeroSums
    /\ log' = <<>>
    /\ sink_before' = sink
    /\ sink_writes' = <<>>
    /\ pc' = "seed"
    /\ UNCHANGED <<entity_reg, battery_sn, sink, notices, runs, others>>

\* The service is called with a date range and the include_power flag.
Invoke ==
    /\ pc = "idle"
    /\ \E s \in Days, e \in Days, p \in BOOLEAN : Start(s, e, p)

\* The service is called again with the same arguments.
Rerun ==
    /\ pc = "done"
    /\ Len(runs) < MaxRuns
    /\ Start(start_date, end_date, include_power)

\* On a rerun the sink query and the cloud answer as they did before.
Replaying == Len(runs) > 0

Expected == runs[Len(runs)]

\* Variant: the lookback window runs through the first day of the range.
PreRangeStatsThroughFirstDay(snk, start, ids) ==
    statistics_during_period(snk, Midnight(start) - 24 * LookbackDays, Midnight(start + 1), ids)

\* The rows the seeding query returns.
PreRangeStats(snk, start, ids) ==
    statistics_during_period(snk, Midnight(start) - 24 * LookbackDays, Midnight(start), ids)

\* Variant: the oldest row of the window is read, not the newest.
SeedForOldest(pre_range_stats, ids, flow_key) ==
    IF flow_key \in DOMAIN ids /\ ids[flow_key] \in DOMAIN pre_range_stats
    THEN LET first_stat == pre_range_stats[ids[flow_key]][1]
         IN IF Has(first_stat, "sum") THEN first_stat["sum"] ELSE Zero
    ELSE Zero

\* The sum the seeding loop reads for a flow, 0.0 when there is none.
SeedFor(pre_range_stats, ids, flow_key) ==
    IF flow_key \in DOMAIN ids /\ ids[flow_key] \in DOMAIN pre_range_stats
    THEN LET stats_list == pre_range_stats[ids[flow_key]]
             last_stat == stats_list[Len(stats_list)]
         IN IF Has(last_stat, "sum") THEN last_stat["sum"] ELSE Zero
    ELSE Zero

\* Reading the row of flow `fault` raises if the query returned one for it.
ReadRaises(pre_range_stats, ids, fault) ==
    /\ fault \in FlowKeys
    /\ fault \in DOMAIN ids
    /\ ids[fault] \in DOMAIN pre_range_stats

\* running_sums after the try block: the except clause only logs, so the
\* flows seeded before an exception keep their seed.
SeededSums(pre_range_stats, ids, fault) ==
    [k \in FlowKeys |->
        IF fault = "query" THEN Zero
        ELSE IF ReadRaises(pre_range_stats, ids, fault) /\ FlowIndex(k) >= FlowIndex(fault)
        THEN Zero
        ELSE SeedFor(pre_range_stats, ids, k)]

\* ------------------------------------------------- the handler: after the loop
RECURSIVE EnergyWritesFrom(_, _)
EnergyWritesFrom(st, i) ==
    IF i > Len(FlowOrder) THEN <<>>
    ELSE LET flow_key == FlowOrder[i]
         IN (IF flow_key \in DOMAIN sensor_entity_ids /\ st[flow_key] # <<>>
             THEN <<[statistic_id |-> sensor_entity_ids[flow_key], unit |-> "kWh",
                     has_sum |-> TRUE, rows |-> st[flow_key]]>>
             ELSE <<>>)
            \o EnergyWritesFrom(st, i + 1)

\* Variant: one unresolved flow and no energy series is handed over.
EnergyWritesAllOrNothing(st) ==
    IF DOMAIN sensor_entity_ids = FlowKeys THEN EnergyWritesFrom(st, 1) ELSE <<>>

\* The energy series handed to the recorder, in dict order.
EnergyWrites(st) == EnergyWritesFrom(st, 1)

\* bat_power_eid_kw is set: the battery device's rack_power entity exists.
HasBatteryKw == battery_sn # "" /\ Registered(battery_sn, "rack_power")

\* power_entity_ids
PowerEntityIds ==
    [k \in {q \in PowerSensorKeys :
                Registered(INVERTER_SN, q) \/ (q = "battery_power" /\ HasBatteryKw)} |->
        IF k = "battery_power" /\ HasBatteryKw
        THEN UniqueId(battery_sn, "rack_power")
        ELSE UniqueId(INVERTER_SN, k)]

\* Its iteration order: the inverter's sensors in mapping order, battery_power
\* last when only the battery device has it.
PowerOrder ==
    LET inv == SelectSeq(<<"solar_power", "battery_power", "grid_power", "load_power">>,
                         LAMBDA k : Registered(INVERTER_SN, k))
    IN IF HasBatteryKw /\ ~Registered(INVERTER_SN, "battery_power")
       THEN Append(inv, "battery_power") ELSE inv

\* Variant: the means are left in watts.
ToKilowattUnscaled(rows) == rows

\* mean / 1000.0 for every row
ToKilowatt(rows) ==
    [i \in 1..Len(rows) |->
        [start |-> rows[i].start, mean |-> FDiv(rows[i].mean, FromInt(1000))]]

RECURSIVE PowerWritesFrom(_, _)
PowerWritesFrom(pst, order) ==
    IF order = <<>> THEN <<>>
    ELSE LET sensor_key == Head(order)
             entity_id == PowerEntityIds[sensor_key]
             sorted == SortByStart(pst[sensor_key])
             kw == HasBatteryKw /\ entity_id = UniqueId(battery_sn, "rack_power")
         IN (IF pst[sensor_key] # <<>>
             THEN <<[statistic_id |-> entity_id,
                     unit |-> IF kw THEN "kW" ELSE "W",
                     has_sum |-> FALSE,
                     rows |-> IF kw THEN ToKilowatt(sorted) ELSE sorted]>>
             ELSE <<>>)
            \o PowerWritesFrom(pst, Tail(order))

\* The power series handed to the recorder.
PowerWrites(pst) == PowerWritesFrom(pst, PowerOrder)

\* The calls of async_import_statistics once the loop has ended.
WritesAfterLoop(st, pst, imp) ==
    IF imp = 0 THEN <<>>
    ELSE EnergyWrites(st) \o (IF include_power THEN PowerWrites(pst) ELSE <<>>)

\* The persistent notification.
Notice(imp, pd) ==
    IF include_power
    THEN [imported_days |-> imp, power_days |-> pd,
          start_date |-> start_date, end_date |-> end_date]
    ELSE [imported_days |-> imp, start_date |-> start_date, end_date |-> end_date]

\* Variant: the notification is created even when no day was imported.
NoticesAfterLoopAlways(imp, pd) == Append(notices, Notice(imp, pd))

\* "if not imported_days: return" comes before the notification is created.
NoticesAfterLoop(imp, pd) ==
    IF imp = 0 THEN notices ELSE Append(notices, Notice(imp, pd))

\* The handler from the end of the loop to its return.
Finish(rs, st, pst, imp, pd, lg, sf, ss) ==
    /\ pc' = "done"
    /\ sink_writes' = WritesAfterLoop(st, pst, imp)
    /\ sink' = ApplyWrites(sink, sink_writes')
    /\ notices' = NoticesAfterLoop(imp, pd)
    /\ runs' = Append(runs,
                 [start_date |-> start_date, end_date |-> end_date,
                  include_power |-> include_power, seed_fault |-> sf, seed_sums |-> ss,
                  log |-> lg, running_sums |-> rs, stats |-> st, power_stats |-> pst,
                  imported_days |-> imp, sink_after |-> sink'])

\* Variant: the rows buffered so far are handed to the recorder after each day.
LoopExitWritingEachDay ==
    IF current' <= end_date
    THEN /\ pc' = "loop"
         /\ sink' = ApplyWrites(sink, WritesAfterLoop(stats', power_stats', imported_days'))
         /\ UNCHANGED <<notices, sink_writes, runs>>
    ELSE Finish(running_sums', stats', power_stats', imported_days', power_days',
                log', seed_fault', seed_sums')

\* "while current <= end_date": another day, or the end of the handler.
LoopExit ==
    IF current' <= end_date
    THEN /\ pc' = "loop"
         /\ UNCHANGED <<sink, notices, sink_writes, runs>>
    ELSE Finish(running_sums', stats', power_stats', imported_days', power_days',
                log', seed_fault', seed_sums')

\* The seeding query returns (or fails); the loop is entered.
Seed ==
    /\ pc = "seed"
    /\ \E fault \in SeedFaults :
        LET pre_range_stats ==
                PreRangeStats(sink, start_date,
                              {sensor_entity_ids[k] : k \in DOMAIN sensor_entity_ids})
        IN
        /\ Replaying => fault = Expected.seed_fault
        /\ seed_fault' = IF fault \in FlowKeys /\ ~ReadRaises(pre_range_stats, sensor_entity_ids, fault)
                          THEN "none" ELSE fault
        /\ running_sums' = SeededSums(pre_range_stats, sensor_entity_ids, fault)
    /\ seed_sums' = running_sums'
    /\ UNCHANGED <<entity_reg, battery_sn, start_date, end_date, include_power,
                   sensor_entity_ids, current, stats, power_stats, imported_days,
                   power_days, day_data, log, sink_before, others>>
    /\ LoopExit

\* ----------------------------------------------------- the handler: the loop
NotCalled == [kind |-> "not_called"]

fixed == <<entity_reg, battery_sn, start_date, end_date, include_power,
           sensor_entity_ids, seed_fault, seed_sums, sink_before, others>>

\* Variant: running_sums is not advanced by the day's totals.
ImportDaySumsNotAdvanced(totals, minute_data) ==
    /\ stats' = [k \in FlowKeys |->
                    stats[k] \o EnergyRows(current, DailyValue(totals, k),
                                           FracsFor(minute_data, k), running_sums[k])]
    /\ running_sums' = running_sums
    /\ imported_days' = imported_days + 1
    /\ power_stats' = power_stats
    /\ power_days' = power_days
    /\ current' = current + 1

\* The body of the loop from the energy rows to "current += 1", for the daily
\* totals and the minute samples of the day.
ImportDay(totals, minute_data) ==
    /\ stats' = [k \in FlowKeys |->
                    stats[k] \o EnergyRows(current, DailyValue(totals, k),
                                           FracsFor(minute_data, k), running_sums[k])]
    /\ running_sums' = [k \in FlowKeys |-> FAdd(running_sums[k], DailyValue(totals, k))]
    /\ imported_days' = imported_days + 1
    /\ power_stats' =
          IF include_power /\ minute_data # <<>>
          THEN [k \in DOMAIN power_stats |->
                   power_stats[k] \o PowerRows(minute_data, BucketKeys(minute_data, {}), FieldOf(k))]
          ELSE power_stats
    /\ power_days' = IF include_power /\ minute_data # <<>> THEN power_days + 1 ELSE power_days
    /\ current' = current + 1

\* Variant: a failed day is imported as a day of zero totals.
SkipDayAsEmpty == ImportDay(<<>>, <<>>)

\* Variant: a failed day is counted as imported.
SkipDayCounted ==
    /\ current' = current + 1
    /\ imported_days' = imported_days + 1
    /\ UNCHANGED <<running_sums, stats, power_stats, power_days>>

\* Variant: the except branch goes on with the same day.
SkipDayWithoutAdvance ==
    /\ current' = current
    /\ UNCHANGED <<running_sums, stats, power_stats, imported_days, power_days>>

\* The except branch of the energy fetch: "current += 1; continue".
SkipDay ==
    /\ current' = current + 1
    /\ UNCHANGED <<running_sums, stats, power_stats, imported_days, power_days>>

\* async_fetch_energy_flow raises HanchuApiError: the day is skipped.
DaySkipped ==
    /\ pc = "loop"
    /\ LET r == [kind |-> "api_error"]
       IN /\ Replaying => r = Expected.log[Len(log) + 1].energy
          /\ log' = Append(log, [day |-> current, energy |-> r, minute |-> NotCalled])
    /\ SkipDay
    /\ UNCHANGED <<fixed, day_data>>
    /\ LoopExit

\* async_fetch_energy_flow raises something else: the handler ends with it.
EnergyFetchRaises ==
    /\ pc = "loop"
    /\ LET r == [kind |-> "error"]
       IN /\ Replaying => r = Expected.log[Len(log) + 1].energy
          /\ log' = Append(log, [day |-> current, energy |-> r, minute |-> NotCalled])
    /\ pc' = "aborted"
    /\ UNCHANGED <<fixed, sink, notices, current, running_sums, stats, power_stats,
                   imported_days, power_days, day_data, sink_writes, runs>>

\* Variant: the minute chart is fetched and used although include_power is off.
DayImportedWithSamples ==
    /\ pc = "loop"
    /\ ~include_power
    /\ \E t \in DailyTotals :
        LET r == [kind |-> "ok", data |-> t]
        IN /\ Replaying => r = Expected.log[Len(log) + 1].energy
           /\ log' = Append(log, [day |-> current, energy |-> r, minute |-> NotCalled])
           /\ day_data' = t
           /\ ImportDay(t, SamplesA(current))
    /\ UNCHANGED fixed
    /\ LoopExit

\* The daily totals arrive and include_power is off: the day is imported.
DayImported ==
    /\ pc = "loop"
    /\ ~include_power
    /\ \E t \in DailyTotals :
        LET r == [kind |-> "ok", data |-> t]
        IN /\ Replaying => r = Expected.log[Len(log) + 1].energy
           /\ log' = Append(log, [day |-> current, energy |-> r, minute |-> NotCalled])
           /\ day_data' = t
           /\ ImportDay(t, <<>>)
    /\ UNCHANGED fixed
    /\ LoopExit

\* The daily totals arrive and include_power is on: the minute chart is asked for.
EnergyFetched ==
    /\ pc = "loop"
    /\ include_power
    /\ \E t \in DailyTotals :
        /\ Replaying => [kind |-> "ok", data |-> t] = Expected.log[Len(log) + 1].energy
        /\ day_data' = t
    /\ pc' = "minute"
    /\ UNCHANGED <<fixed, sink, notices, current, running_sums, stats, power_stats,
                   imported_days, power_days, log, sink_writes, runs>>

\* async_fetch_power_minute_chart returns or raises HanchuApiError: the day is
\* imported, with the samples or without.
MinuteFetched ==
    /\ pc = "minute"
    /\ \E r \in {m \in MinuteResponses(current) : m.kind # "error"} :
        /\ Replaying => r = Expected.log[Len(log) + 1].minute
        /\ log' = Append(log, [day |-> current,
                               energy |-> [kind |-> "ok", data |-> day_data],
                               minute |-> r])
        /\ ImportDay(day_data, IF r.kind = "ok" THEN r.data ELSE <<>>)
    /\ UNCHANGED <<fixed, day_data>>
    /\ LoopExit

\* async_fetch_power_minute_chart raises something else: the handler ends with it.
MinuteFetchRaises ==
    /\ pc = "minute"
    /\ LET r == [kind |-> "error"]
       IN /\ Replaying => r = Expected.log[Len(log) + 1].minute
          /\ log' = Append(log, [day |-> current,
                                 energy |-> [kind |-> "ok", data |-> day_data],
                                 minute |-> r])
    /\ pc' = "aborted"
    /\ UNCHANGED <<fixed, sink, notices, current, running_sums, stats, power_stats,
                   imported_days, power_days, day_data, sink_writes, runs>>

\* The task running the handler is cancelled while it waits for the recorder
\* or the cloud: CancelledError is raised at the await and no except clause
\* of the handler catches it.  (A rerun replays a run that was not cancelled.)
Cancelled ==
    /\ pc \in {"seed", "loop", "minute"}
    /\ ~Replaying
    /\ pc' = "aborted"
    /\ UNCHANGED <<fixed, sink, notices, current, running_sums, stats, power_stats,
                   imported_days, power_days, day_data, log, sink_writes, runs>>

Next ==
    \/ Invoke
    \/ Seed
    \/ DaySkipped
    \/ EnergyFetchRaises
    \/ DayImported
    \/ EnergyFetched
    \/ MinuteFetched
    \/ MinuteFetchRaises
    \/ Cancelled

Spec == Init /\ [][Next]_vars

\* An awaited call of the handler (the seeding query, a fetch) returns or raises.
Answered ==
    \/ Seed
    \/ EnergyFetchRaises
    \/ DaySkipped
    \/ DayImported
    \/ EnergyFetched
    \/ MinuteFetchRaises
    \/ MinuteFetched

\* The handler when every call it awaits ends sooner or later.
SpecFair == Spec /\ WF_vars(Answered)

\* The handler, and the service being called again once the handler has ended.
NextWithRerun ==
    \/ Next
    \/ Rerun

SpecRerun == Init /\ [][NextWithRerun]_vars

\* ------------------------------------------------------- the cloud client
MaxClock == 6        \* half days the clock may advance

\* "- 86400" in _token_valid
DaySeconds == 86400

\* int(time.time()), the clock moving in steps of half a day
Seconds(n) == n * (DaySeconds \div 2)

\* Seconds from a login to the expiry of the token it returns.
Lifetimes == {DaySeconds, DaySeconds + DaySeconds \div 2, 2 * DaySeconds}

\* What a login may return in "data": a JWT with an expiry, or a string that
\* _jwt_exp cannot decode.
NewTokens(t) ==
    {[kind |-> "jwt", exp |-> Seconds(t) + l] : l \in Lifetimes}
    \cup {[kind |-> "opaque", exp |-> 0]}

\* Variant: a token that expires in exactly 24 hours still counts as valid.
TokenValidAtBoundary(tok, t) ==
    /\ tok # NoToken
    /\ tok.kind = "jwt"
    /\ Seconds(t) <= tok.exp - DaySeconds

\* _token_valid: a token is cached, its expiry can be decoded and lies more
\* than 86400 s ahead.
TokenValid(tok, t) ==
    /\ tok # NoToken
    /\ tok.kind = "jwt"
    /\ Seconds(t) < tok.exp - DaySeconds

\* _post with a valid cached token: no login, the request carries the token.
PostWithCachedToken ==
    /\ TokenValid(token, now)
    /\ last_post' = [at |-> now, login |-> "none", raised |-> "none", access_token |-> token]
    /\ UNCHANGED <<token, now, not_client>>

\* _post without one: the login succeeds and its token is cached; the request
\* carries it, unless the expiry of the new token cannot be decoded for the
\* debug log, which raises.
PostLogsIn ==
    /\ ~TokenValid(token, now)
    /\ \E t \in NewTokens(now) :
        /\ token' = t
        /\ last_post' = IF t.kind = "jwt"
                        THEN [at |-> now, login |-> "ok", raised |-> "none", access_token |-> t]
                        ELSE [at |-> now, login |-> "ok", raised |-> "error",
                              access_token |-> NoToken]
    /\ UNCHANGED <<now, not_client>>

\* The login is answered without success, with a code other than 200 or
\* without a token: HanchuApiError.
PostLoginRejected ==
    /\ ~TokenValid(token, now)
    /\ last_post' = [at |-> now, login |-> "rejected", raised |-> "api_error",
                     access_token |-> NoToken]
    /\ UNCHANGED <<token, now, not_client>>

\* The login request times out, fails in transport or gets an HTTP error
\* status: the exception of the HTTP library is raised.
PostLoginFails ==
    /\ ~TokenValid(token, now)
    /\ last_post' = [at |-> now, login |-> "failed", raised |-> "error",
                     access_token |-> NoToken]
    /\ UNCHANGED <<token, now, not_client>>

\* Time passes.
ClockAdvances ==
    /\ now < MaxClock
    /\ now' = now + 1
    /\ UNCHANGED <<token, last_post, not_client>>

NextClient ==
    \/ PostWithCachedToken
    \/ PostLogsIn
    \/ PostLoginRejected
    \/ PostLoginFails
    \/ ClockAdvances

\* The client alone, on an installation where the service is not called.
InitClient ==
    /\ Init
    /\ entity_reg = RegFull

SpecClient == InitClient /\ [][NextClient]_vars

\* ------------------------------------------------- config entries and the service
\* async_setup_entry is called for an entry that is not set up: it awaits
\* the first refresh of the coordinators.
SetupStarts(e) ==
    /\ entry_state[e] = "not_loaded"
    /\ entry_state' = [entry_state EXCEPT ![e] = "refresh"]
    /\ UNCHANGED <<domain_data, registrations, picked, not_entries>>

\* The first refresh raises: the setup ends before anything was stored.
RefreshFails(e) ==
    /\ entry_state[e] = "refresh"
    /\ entry_state' = [entry_state EXCEPT ![e] = "not_loaded"]
    /\ UNCHANGED <<domain_data, registrations, picked, not_entries>>

\* The refreshes are done: the entry's data goes into hass.data[DOMAIN] and
\* the platforms are awaited.
RefreshDone(e) ==
    /\ entry_state[e] = "refresh"
    /\ entry_state' = [entry_state EXCEPT ![e] = "forward"]
    /\ domain_data' = Append(domain_data, e)
    /\ UNCHANGED <<registrations, picked, not_entries>>

\* Variant: the service is registered by every entry that is set up.
SetupDoneRegistersAgain(e) ==
    /\ entry_state[e] = "forward"
    /\ entry_state' = [entry_state EXCEPT ![e] = "loaded"]
    /\ registrations' = registrations + 1
    /\ UNCHANGED <<domain_data, picked, not_entries>>

\* The platforms are set up: the service is registered unless it exists.
SetupDone(e) ==
    /\ entry_state[e] = "forward"
    /\ entry_state' = [entry_state EXCEPT ![e] = "loaded"]
    /\ registrations' = IF registrations = 0 THEN 1 ELSE registrations
    /\ UNCHANGED <<domain_data, picked, not_entries>>

\* async_unload_entry is called for a loaded entry: it awaits the platforms.
UnloadStarts(e) ==
    /\ entry_state[e] = "loaded"
    /\ entry_state' = [entry_state EXCEPT ![e] = "unloading"]
    /\ UNCHANGED <<domain_data, registrations, picked, not_entries>>

\* unload_ok: the entry's data is popped and the service removed when no
\* data is left.
UnloadDone(e) ==
    /\ entry_state[e] = "unloading"
    /\ entry_state' = [entry_state EXCEPT ![e] = "not_loaded"]
    /\ domain_data' = SelectSeq(domain_data, LAMBDA d : d # e)
    /\ registrations' = IF domain_data' = <<>> THEN 0 ELSE registrations
    /\ UNCHANGED <<picked, not_entries>>

\* not unload_ok: the data stays, and so does the service, the data not
\* being empty; the entry goes on as it was.
UnloadFails(e) ==
    /\ entry_state[e] = "unloading"
    /\ entry_state' = [entry_state EXCEPT ![e] = "loaded"]
    /\ UNCHANGED <<domain_data, registrations, picked, not_entries>>

\* The registered service is called: the handler takes the api of the first
\* value of hass.data[DOMAIN] and the inverter SN of the first configured
\* entry, or returns when no data is there.
ServiceCalled ==
    /\ registrations > 0
    /\ picked' = IF domain_data = <<>> THEN NoPick
                 ELSE [api |-> Head(domain_data), inverter_sn |-> ConfigEntries[1]]
    /\ UNCHANGED <<entry_state, domain_data, registrations, not_entries>>

NextEntries ==
    \/ \E e \in EntryIds : SetupStarts(e)
    \/ \E e \in EntryIds : RefreshFails(e)
    \/ \E e \in EntryIds : RefreshDone(e)
    \/ \E e \in EntryIds : SetupDone(e)
    \/ \E e \in EntryIds : UnloadStarts(e)
    \/ \E e \in EntryIds : UnloadDone(e)
    \/ \E e \in EntryIds : UnloadFails(e)
    \/ ServiceCalled

InitEntries ==
    /\ HandlerInit
    /\ entity_reg = RegFull
    /\ ClientInit
    /\ NoEntryLoaded
    /\ FixedZoneConfigured
    /\ NoCalls

SpecEntries == InitEntries /\ [][NextEntries]_vars

\* ------------------------------------------------- row starts and clock changes
\* Time zones with daylight saving: the clocks go forward by an hour on day
\* `forward` (local 01:00 becomes 02:00) and back on day `back` (local 02:00
\* becomes 01:00); `std` is the offset east of UTC outside daylight saving.
Zones ==
    {FixedZone,
     [std |-> 0, forward |-> FirstDay, back |-> FirstDay + 1],
     [std |-> -5, forward |-> FirstDay, back |-> FirstDay + 1]}

ZoneDays == (FirstDay - 1)..(FirstDay + NumDays)

\* tz.utcoffset() of a wall-clock time with fold = 0: a time the clocks skip
\* has the offset from before the change, a time they repeat is the first
\* of the two.
UtcOffset(z, d, wall_hour) ==
    IF z.forward = 0 THEN z.std
    ELSE IF d < z.forward \/ d > z.back THEN z.std
    ELSE IF d = z.forward THEN (IF wall_hour <= 1 THEN z.std ELSE z.std + 1)
    ELSE IF d = z.back THEN (IF wall_hour <= 1 THEN z.std + 1 ELSE z.std)
    ELSE z.std + 1

\* The instant (hours since the epoch) of a wall-clock hour of a day.
Instant(z, d, wall_hour) == d * 24 + wall_hour - UtcOffset(z, d, wall_hour)

\* start = midnight + timedelta(hours=hour): arithmetic on the wall clock of
\* midnight, whose tzinfo is kept.
StartOf(z, d, hour) == Instant(z, d, hour)

\* "midnight = ..." at the top of the loop body, for some day.
DayBegins ==
    /\ \E d \in ZoneDays : zone_day' = d
    /\ starts' = <<>>
    /\ UNCHANGED <<time_zone, not_zone>>

\* One turn of "for hour in range(24)".
HourEmitted ==
    /\ Len(starts) < 24
    /\ starts' = Append(starts, StartOf(time_zone, zone_day, Len(starts)))
    /\ UNCHANGED <<time_zone, zone_day, not_zone>>

NextZone ==
    \/ DayBegins
    \/ HourEmitted

InitZone ==
    /\ HandlerInit
    /\ entity_reg = RegFull
    /\ ClientInit
    /\ FirstEntryLoaded
    /\ time_zone \in Zones
    /\ zone_day = FirstDay
    /\ starts = <<>>
    /\ NoCalls

SpecZone == InitZone /\ [][NextZone]_vars

\* ------------------------------------------------- two invocations in flight
\* What the cloud has for a day.
CloudTotals(d) == IF d = FirstDay THEN TotalsA ELSE TotalsB

\* The energy series of the flows i.. that have an entity and rows, in dict
\* order.
RECURSIVE EnergySeries(_, _, _)
EnergySeries(ids, st, i) ==
    IF i > Len(FlowOrder) THEN <<>>
    ELSE LET flow_key == FlowOrder[i]
         IN (IF flow_key \in DOMAIN ids /\ st[flow_key] # <<>>
             THEN <<[statistic_id |-> ids[flow_key], unit |-> "kWh",
                     has_sum |-> TRUE, rows |-> st[flow_key]]>>
             ELSE <<>>)
            \o EnergySeries(ids, st, i + 1)

\* Variant: there is one running_sums, that of the first invocation.
RunningSumsOfFirstCall(c) == calls[1].running_sums

\* running_sums is a local of the invocation.
RunningSumsOf(c) == calls[c].running_sums

\* The service is called (include_power off) while the other invocation may
\* be under way: the handler runs up to the await of the seeding query.
CallInvoked(c) ==
    /\ calls[c].pc = "idle"
    /\ \E s \in Days, e \in Days :
        calls' = [calls EXCEPT ![c] = [IdleCall EXCEPT !.pc = "seed", !.start_date = s,
                                                         !.end_date = e, !.current = s]]
    /\ UNCHANGED <<sink, notices, not_calls>>

\* Invocation c leaves its loop with the locals `after`: the writes, the
\* notification, the return.
CallFinished(c, after) ==
    LET writes == IF after.imported_days = 0 THEN <<>>
                  ELSE EnergySeries(ResolveFlows, after.stats, 1)
    IN /\ calls' = [calls EXCEPT ![c] = [after EXCEPT !.pc = "done", !.writes = writes]]
       /\ sink' = ApplyWrites(sink, writes)
       /\ notices' = IF after.imported_days = 0 THEN notices
                     ELSE Append(notices, [imported_days |-> after.imported_days,
                                           start_date |-> after.start_date,
                                           end_date |-> after.end_date])

\* "while current <= end_date" for invocation c.
CallLoopExit(c, after) ==
    IF after.current <= after.end_date
    THEN /\ calls' = [calls EXCEPT ![c] = [after EXCEPT !.pc = "loop"]]
         /\ UNCHANGED <<sink, notices>>
    ELSE CallFinished(c, after)

\* The seeding query of invocation c returns.
CallSeeded(c) ==
    /\ calls[c].pc = "seed"
    /\ LET ids == ResolveFlows
           pre_range_stats == PreRangeStats(sink, calls[c].start_date,
                                            {ids[k] : k \in DOMAIN ids})
           seeded == SeededSums(pre_range_stats, ids, "none")
       IN CallLoopExit(c, [calls[c] EXCEPT !.running_sums = seeded, !.seed_sums = seeded])
    /\ UNCHANGED not_calls

\* The daily-totals fetch of invocation c raises HanchuApiError.
CallDaySkipped(c) ==
    /\ calls[c].pc = "loop"
    /\ CallLoopExit(c, [calls[c] EXCEPT
            !.log = Append(@, [day |-> calls[c].current, energy |-> [kind |-> "api_error"]]),
            !.current = @ + 1])
    /\ UNCHANGED not_calls

\* The daily-totals fetch of invocation c returns: the day is imported.
CallDayImported(c) ==
    /\ calls[c].pc = "loop"
    /\ LET totals == CloudTotals(calls[c].current)
           sums == RunningSumsOf(c)
       IN CallLoopExit(c, [calls[c] EXCEPT
            !.log = Append(@, [day |-> calls[c].current,
                               energy |-> [kind |-> "ok", data |-> totals]]),
            !.stats = [k \in FlowKeys |->
                          @[k] \o EnergyRows(calls[c].current, DailyValue(totals, k),
                                             FracsFor(<<>>, k), sums[k])],
            !.running_sums = [k \in FlowKeys |-> FAdd(sums[k], DailyValue(totals, k))],
            !.imported_days = @ + 1,
            !.current = @ + 1])
    /\ UNCHANGED not_calls

NextCalls ==
    \/ \E c \in CallIds : CallInvoked(c)
    \/ \E c \in CallIds : CallSeeded(c)
    \/ \E c \in CallIds : CallDaySkipped(c)
    \/ \E c \in CallIds : CallDayImported(c)

\* An installation with every entity registered and live statistics.
InitCalls ==
    /\ HandlerInit
    /\ entity_reg = RegFull
    /\ ClientInit
    /\ FirstEntryLoaded
    /\ FixedZoneConfigured
    /\ NoCalls

SpecCalls == InitCalls /\ [][NextCalls]_vars

\* ---------------------------------------------------------------- properties
\* A step in which the handler got the answer for one more day.
DayStep == Len(log') = Len(log) + 1

LastLog == log[Len(log)]

\* The days whose daily totals arrived, in fetch order.
OkDays(lg) == SelectSeq(lg, LAMBDA entry : entry.energy.kind = "ok")

LoggedDays(lg) == [i \in 1..Len(lg) |-> lg[i].day]

RECURSIVE DaysFromTo(_, _)
DaysFromTo(a, b) == IF a > b THEN <<>> ELSE <<a>> \o DaysFromTo(a + 1, b)

\* C1: when the daily-totals fetch of a day fails with the API error, no
\* energy or power row is buffered for the day, the running sums and the
\* imported-day count stay as they are, the loop goes on with the next day,
\* and a handler that reaches its end has fetched every day of the range.
C1_SkippedDayLeavesNoTrace ==
    [][/\ (DayStep /\ log'[Len(log')].energy.kind = "api_error") =>
            /\ stats' = stats
            /\ power_stats' = power_stats
            /\ running_sums' = running_sums
            /\ imported_days' = imported_days
            /\ current' = log'[Len(log')].day + 1
            /\ pc' = IF current' <= end_date THEN "loop" ELSE "done"
       /\ (pc' = "done" /\ start_date' <= end_date') =>
            LoggedDays(log') = DaysFromTo(start_date', end_date')]_vars

\* A finished backfill that skipped a day and imported a later one.
C1_Witness ==
    /\ pc = "done"
    /\ \E i, j \in 1..Len(log) :
        /\ i < j
        /\ log[i].energy.kind = "api_error"
        /\ log[j].energy.kind = "ok"
    /\ imported_days = 1

\* C2: a handler that ends with no day imported has handed nothing to the
\* sink, has left the sink as it found it, and has created no notification.
C2_NothingImportedNothingWritten ==
    [][(pc # "done" /\ pc' = "done" /\ imported_days' = 0) =>
            /\ sink_writes' = <<>>
            /\ sink' = sink_before'
            /\ notices' = notices]_vars

\* A finished backfill all of whose daily-totals fetches failed.
C2_Witness ==
    /\ pc = "done"
    /\ imported_days = 0
    /\ Len(log) = NumDays
    /\ \A i \in 1..Len(log) : log[i].energy.kind = "api_error"

\* The series handed to the sink for a statistic id.
WritesFor(id) == SelectSeq(sink_writes, LAMBDA w : w.statistic_id = id)

\* C3: when at least one day is imported, each resolved flow has exactly one
\* series handed to the sink, of 24 rows per day whose daily totals arrived,
\* and the notification reports that number of days.
C3_RowsAndCountMatchFetchedDays ==
    (pc = "done" /\ OkDays(log) # <<>>) =>
        /\ \A k \in DOMAIN sensor_entity_ids :
            /\ Len(WritesFor(sensor_entity_ids[k])) = 1
            /\ Len(WritesFor(sensor_entity_ids[k])[1].rows) = 24 * Len(OkDays(log))
        /\ notices # <<>>
        /\ notices[Len(notices)].imported_days = Len(OkDays(log))

\* A finished backfill with a skipped day, an imported day and a resolved flow.
C3_Witness ==
    /\ pc = "done"
    /\ Len(OkDays(log)) = 1
    /\ Len(log) = 2
    /\ log[1].energy.kind = "api_error"
    /\ DOMAIN sensor_entity_ids # {}
    /\ sink_writes # <<>>

\* The log entries of the days that were imported, in order.
ImportedEntries(lg) ==
    SelectSeq(lg, LAMBDA entry : entry.energy.kind = "ok" /\ entry.minute.kind # "error")

\* The daily total of a flow on the j-th imported day.
DailyOf(j, k) == DailyValue(ImportedEntries(log)[j].energy.data, k)

\* The rows a flow got for the j-th imported day.
DayRows(k, j) == SubSeq(stats[k], 24 * (j - 1) + 1, 24 * j)

\* The running sum of a flow once j days are imported: the seed plus the
\* daily totals, added in order.
RECURSIVE RunningAfter(_, _)
RunningAfter(k, j) ==
    IF j = 0 THEN seed_sums[k] ELSE FAdd(RunningAfter(k, j - 1), DailyOf(j, k))

States(rows) == [i \in 1..Len(rows) |-> rows[i].state]

\* C4: for every flow the buffered energy rows, ordered by start, have a sum
\* that never decreases, and the first row's sum is the seed plus the hour-0
\* contribution of the first imported day.
C4_SumsNeverDecrease ==
    \A k \in FlowKeys :
        LET rows == SortByStart(stats[k])
        IN /\ \A i \in 1..(Len(rows) - 1) : FLe(rows[i].sum, rows[i + 1].sum)
           /\ rows # <<>> => rows[1].sum = FAdd(seed_sums[k], rows[1].state)

\* The stored rows of a statistic id that carry a sum.
SumRows(id) == {r \in sink[id] : Has(r, "sum")}

Newest(rowset) == CHOOSE r \in rowset : \A q \in rowset : q.start <= r.start

Oldest(rowset) == CHOOSE r \in rowset : \A q \in rowset : r.start <= q.start

\* C5: after a backfill whose seeding did not fail and that imported every
\* day of its range is written, for every energy series written whose
\* statistic id has stored rows before and after the written rows, the sums
\* do not decrease from the newest earlier row to the first written row, nor
\* from the last written row to the oldest later row.
C5_BackfillJoinsLiveRows ==
    (pc = "done" /\ seed_fault = "none" /\ imported_days = Len(log)) =>
        \A n \in 1..Len(sink_writes) :
            LET w == sink_writes[n]
                before == {r \in SumRows(w.statistic_id) : r.start < w.rows[1].start}
                after == {r \in SumRows(w.statistic_id) : r.start > w.rows[Len(w.rows)].start}
            IN (w.has_sum /\ before # {} /\ after # {}) =>
                /\ FLe(Newest(before).sum, w.rows[1].sum)
                /\ FLe(w.rows[Len(w.rows)].sum, Oldest(after).sum)

\* C6: for every flow and imported day the 24 hourly states add up to the
\* daily total exactly, and the sum of the hour-23 row is exactly the running
\* sum before the day plus the daily total.
C6_DayAddsUpExactly ==
    \A k \in FlowKeys :
        \A j \in 1..(Len(stats[k]) \div 24) :
            /\ FSum(States(DayRows(k, j))) = DailyOf(j, k)
            /\ DayRows(k, j)[24].sum = FAdd(RunningAfter(k, j - 1), DailyOf(j, k))

\* The stored rows of a flow in the 7 days (168 hours) before the range.
LookbackRows(k) ==
    {r \in sink[UniqueId(INVERTER_SN, FLOW_TO_SENSOR[k])] :
        /\ Midnight(start_date) - 168 <= r.start
        /\ r.start < Midnight(start_date)}

\* C7: seeding happens in one step before any day is fetched; when it
\* completes without failing, a resolved flow whose newest stored row of the
\* 7 days before start_date has a sum starts from that sum, and a flow that
\* is unresolved, or has no row with a sum in those 7 days, starts from 0.0.
C7_SeedIsNewestSumOfLookback ==
    [][(pc = "seed" /\ pc' \in {"loop", "done"} /\ seed_fault' = "none") =>
            /\ log = <<>>
            /\ \A k \in FlowKeys :
                LET resolved == UniqueId(INVERTER_SN, FLOW_TO_SENSOR[k]) \in entity_reg
                    rows == LookbackRows(k)
                IN /\ (resolved /\ rows # {} /\ Has(Newest(rows), "sum")) =>
                        running_sums'[k] = Newest(rows)["sum"]
                   /\ (~resolved \/ \A r \in rows : ~Has(r, "sum")) =>
                        running_sums'[k] = Zero]_vars

\* Seeding has run without failing; one resolved flow starts from a stored
\* sum, another resolved flow, whose stored rows are too old, from 0.0.
C7_Witness ==
    /\ pc = "loop"
    /\ log = <<>>
    /\ seed_fault = "none"
    /\ \E k, q \in DOMAIN sensor_entity_ids :
        /\ running_sums[k] # Zero
        /\ running_sums[q] = Zero
        /\ sink[sensor_entity_ids[q]] # {}

\* C8: when seeding fails, in the query or in reading a returned row, every
\* flow's running sum starts from 0.0 and the handler still goes through the
\* whole range.
C8_SeedFailureStartsFromZero ==
    (pc # "seed" /\ seed_fault # "none") =>
        /\ seed_sums = ZeroSums
        /\ (pc = "done" /\ start_date <= end_date) =>
                LoggedDays(log) = DaysFromTo(start_date, end_date)

\* C9: a second run over the same range, with the sink query and the cloud
\* answering as in the first, has the same seed, the same final running
\* sums and the same buffered rows, and leaves the sink as the first run
\* left it.
C9_RerunChangesNothing ==
    (pc = "done" /\ Len(runs) >= 2) =>
        LET first == runs[Len(runs) - 1]
            second == runs[Len(runs)]
        IN (/\ first.start_date = second.start_date
            /\ first.end_date = second.end_date
            /\ first.include_power = second.include_power
            /\ first.seed_fault = second.seed_fault
            /\ first.log = second.log) =>
                /\ second.seed_sums = first.seed_sums
                /\ second.running_sums = first.running_sums
                /\ second.stats = first.stats
                /\ second.power_stats = first.power_stats
                /\ second.sink_after = first.sink_after
                /\ sink = first.sink_after

\* Two finished runs with power, a non-zero seed, imported days and writes.
C9_Witness ==
    /\ pc = "done"
    /\ Len(runs) = 2
    /\ runs[1].log = runs[2].log
    /\ include_power
    /\ imported_days = NumDays
    /\ seed_sums # ZeroSums
    /\ sink_writes # <<>>
    /\ sink = runs[1].sink_after

\* C10: with include_power, when the minute-sample fetch of a day fails with
\* the API error after its daily totals arrived, the day is counted as
\* imported, every flow gets 24 rows for the day's hours with state
\* daily_value * (1/24), and no power row is buffered.
C10_MinuteFailureKeepsEnergy ==
    [][(/\ DayStep
        /\ include_power
        /\ log'[Len(log')].energy.kind = "ok"
        /\ log'[Len(log')].minute.kind = "api_error") =>
            /\ imported_days' = imported_days + 1
            /\ power_stats' = power_stats
            /\ power_days' = power_days
            /\ \A k \in FlowKeys :
                /\ Len(stats'[k]) = Len(stats[k]) + 24
                /\ \A h \in 0..23 :
                    LET row == stats'[k][Len(stats[k]) + h + 1]
                    IN /\ row.start = Midnight(log'[Len(log')].day) + h
                       /\ row.state = FMul(DailyValue(log'[Len(log')].energy.data, k),
                                           FDiv(FromInt(1), FromInt(24)))]_vars

\* A day was imported whose minute-sample fetch failed with the API error.
C10_Witness ==
    /\ include_power
    /\ log # <<>>
    /\ LastLog.energy.kind = "ok"
    /\ LastLog.minute.kind = "api_error"
    /\ imported_days >= 1
    /\ \E k \in FlowKeys : stats[k] # <<>> /\ stats[k][Len(stats[k])].state # Zero

\* ------------------------------------------------- properties of the estimator
\* The minute samples the handler had for a logged day ("no samples" when the
\* fetch was not made or failed).
MinuteDataOf(entry) == IF entry.minute.kind = "ok" THEN entry.minute.data ELSE <<>>

FAbs(x) == IF x.m < 0 THEN FNeg(x) ELSE x

\* x and y differ by at most n roundings of the larger of the two.
WithinRoundings(x, y, n) ==
    LET big == IF FLt(FAbs(x), FAbs(y)) THEN FAbs(y) ELSE FAbs(x)
    IN FLe(FAbs(FAdd(x, FNeg(y))), FMul(Round(n, -MantissaBits), big))

\* The samples of a list that fall in local hour h and carry the field.
SamplesInHour(minute_data, field, h) ==
    SelectSeq(minute_data,
              LAMBDA p : HasTs(p) /\ LocalHour(p["dataTimeTs"]) = h /\ Has(p, field))

RECURSIVE FieldTotal(_, _)
FieldTotal(points, field) ==
    IF points = <<>> THEN 0 ELSE Head(points)[field] + FieldTotal(Tail(points), field)

\* The mean power of a field in local hour h, from the integer readings.
HourMean(minute_data, field, h) ==
    LET points == SamplesInHour(minute_data, field, h)
    IN IF points = <<>> THEN Zero ELSE Dec(FieldTotal(points, field), Len(points))

\* The hourly series a flow is shaped by, as the design states it.
SeriesOf(minute_data, k) ==
    [i \in 1..24 |->
        LET solar == HourMean(minute_data, "pvTtPwr", i - 1)
            house == HourMean(minute_data, "loadEpsPwr", i - 1)
            battery == HourMean(minute_data, "batP", i - 1)
            grid == HourMean(minute_data, "meterPPwr", i - 1)
        IN CASE k = "pv" -> solar
             [] k = "load" -> house
             [] k = "batCharge" -> IF battery.m > 0 THEN battery ELSE Zero
             [] k = "batDisCharge" -> IF battery.m < 0 THEN FNeg(battery) ELSE Zero
             [] k = "gridImport" -> IF grid.m > 0 THEN grid ELSE Zero
             [] k = "gridExport" -> IF grid.m < 0 THEN FNeg(grid) ELSE Zero]

\* C11: for every imported day and flow, the 24 rows of the day have state
\* daily_value * fraction for 24 fractions that add up to 1 (to within 24
\* roundings, which for binary64 is far inside 1e-9); with samples the
\* fractions are the flow's hourly series divided by its total when the total
\* is positive and 1/24 each when it is 0; without samples each is 1/24.
C11_FractionsSumToOne ==
    \A j \in 1..Len(ImportedEntries(log)) : \A k \in FlowKeys :
        LET minute_data == MinuteDataOf(ImportedEntries(log)[j])
            fracs == FracsFor(minute_data, k)
            series == SeriesOf(minute_data, k)
            total == FSum(series)
            daily == DailyOf(j, k)
            rows == DayRows(k, j)
        IN /\ \A h \in 1..24 : rows[h].state = FMul(daily, fracs[h])
           /\ WithinRoundings(FSum(fracs), FromInt(1), 24)
           /\ minute_data = <<>> => \A h \in 1..24 : fracs[h] = Dec(1, 24)
           /\ (minute_data # <<>> /\ total.m > 0) =>
                \A h \in 1..24 : fracs[h] = FDiv(series[h], total)
           /\ (minute_data # <<>> /\ total.m = 0) =>
                \A h \in 1..24 : fracs[h] = Dec(1, 24)

\* A finished backfill of two days: the first had samples in which the grid
\* never imported (uniform fractions) while the battery charged in some hours
\* only; the second had no samples.
C11_Witness ==
    /\ pc = "done"
    /\ Len(ImportedEntries(log)) = 2
    /\ MinuteDataOf(log[1]) = SamplesB(FirstDay)
    /\ MinuteDataOf(log[2]) = <<>>
    /\ log[1].energy.data = TotalsA
    /\ \A h \in 1..24 : stats["gridImport"][h].state = FromInt(1)
    /\ stats["batCharge"][3].state # Zero
    /\ stats["batCharge"][4].state = Zero

\* The net power fields and the two flows each is split into.
SignSplits ==
    {[field |-> "batP", plus |-> "batCharge", minus |-> "batDisCharge"],
     [field |-> "meterPPwr", plus |-> "gridImport", minus |-> "gridExport"]}

\* C12: for every imported day with samples and each net power field (battery,
\* grid), with m the mean of the field in an hour: the rows of the charge
\* (import) flow are shaped by max(m, 0) divided by the total of these over
\* the day, the rows of the discharge (export) flow by max(-m, 0) divided by
\* the total of those; neither total enters the other flow's rows.
C12_SignSplit ==
    \A j \in 1..Len(ImportedEntries(log)) : \A sp \in SignSplits :
        LET minute_data == MinuteDataOf(ImportedEntries(log)[j])
            m == [h \in 1..24 |-> HourMean(minute_data, sp.field, h - 1)]
            up == [h \in 1..24 |-> IF m[h].m > 0 THEN m[h] ELSE Zero]
            down == [h \in 1..24 |-> IF m[h].m < 0 THEN FNeg(m[h]) ELSE Zero]
        IN minute_data # <<>> =>
            /\ FSum(up).m > 0 =>
                \A h \in 1..24 :
                    DayRows(sp.plus, j)[h].state =
                        FMul(DailyOf(j, sp.plus), FDiv(up[h], FSum(up)))
            /\ FSum(down).m > 0 =>
                \A h \in 1..24 :
                    DayRows(sp.minus, j)[h].state =
                        FMul(DailyOf(j, sp.minus), FDiv(down[h], FSum(down)))

\* The first day was imported with battery means +100, -50, 0, +30 in the
\* local hours 2..5: the charge rows are shaped by 100, 0, 0, 30 over 130 and
\* the discharge rows by 0, 50, 0, 0 over 50.
C12_Witness ==
    /\ log # <<>>
    /\ MinuteDataOf(log[1]) = SamplesB(FirstDay)
    /\ log[1].energy.data = TotalsA
    /\ Len(stats["batCharge"]) >= 24
    /\ stats["batCharge"][3].state = Dec(100, 130)
    /\ stats["batCharge"][4].state = Zero
    /\ stats["batCharge"][5].state = Zero
    /\ stats["batCharge"][6].state = Dec(30, 130)
    /\ stats["batDisCharge"][3].state = Zero
    /\ stats["batDisCharge"][4].state = Dec(1, 2)
    /\ stats["batDisCharge"][6].state = Zero

\* ------------------------------------------------ properties of the power series
\* The power series handed to the sink.
PowerSeries == SelectSeq(sink_writes, LAMBDA w : ~w.has_sum)

\* The sensor key whose buffered rows a power series carries.
SensorKeyOf(w) ==
    IF w.statistic_id[2] = "rack_power" THEN "battery_power" ELSE w.statistic_id[2]

RowSet(rows) == {rows[i] : i \in 1..Len(rows)}

\* C13: of the power series handed to the sink, the one written to the
\* battery device's rack_power id has unit kW and, row for row, the buffered
\* watt mean divided by 1000; every other one, battery power written to the
\* inverter's id included, has unit W and the buffered rows unchanged.
C13_KilowattOnlyForBatteryDevice ==
    pc = "done" =>
        \A n \in 1..Len(PowerSeries) :
            LET w == PowerSeries[n]
                buffered == power_stats[SensorKeyOf(w)]
            IN /\ Len(w.rows) = Len(buffered)
               /\ IF w.statistic_id[2] = "rack_power"
                  THEN /\ w.unit = "kW"
                       /\ w.statistic_id[1] = battery_sn
                       /\ RowSet(w.rows) =
                            {[start |-> b.start, mean |-> FDiv(b.mean, FromInt(1000))] :
                                b \in RowSet(buffered)}
                  ELSE /\ w.unit = "W"
                       /\ w.statistic_id[1] = INVERTER_SN
                       /\ RowSet(w.rows) = RowSet(buffered)

\* A finished backfill handed the battery series to the rack_power id with a
\* mean of 1.3 (kW) for the buffered 1300 (W), and another series in W.
C13_Witness ==
    /\ pc = "done"
    /\ \E n, q \in 1..Len(PowerSeries) :
        /\ PowerSeries[n].statistic_id = RackPowerId
        /\ PowerSeries[n].unit = "kW"
        /\ \E i \in 1..Len(PowerSeries[n].rows) : PowerSeries[n].rows[i].mean = Dec(13, 10)
        /\ \E b \in RowSet(power_stats["battery_power"]) : b.mean = FromInt(1300)
        /\ PowerSeries[q].unit = "W"

\* A finished backfill handed battery power to the inverter's id, in W: the
\* installation has no battery device.
C13_WitnessInverterId ==
    /\ pc = "done"
    /\ \E n \in 1..Len(PowerSeries) :
        /\ PowerSeries[n].statistic_id = UniqueId(INVERTER_SN, "battery_power")
        /\ \E i \in 1..Len(PowerSeries[n].rows) : PowerSeries[n].rows[i].mean = FromInt(1300)

\* ------------------------------------------------ properties of the energy rows
\* C14: for every day imported without minute samples, every flow and every
\* hour h, the row starts at the day's midnight plus h hours, its state is
\* daily_value / 24 and its sum is the seed plus the daily values of the
\* earlier imported days plus (h + 1) * daily_value / 24, both to within the
\* roundings of the additions made; for a daily value of 24 the state is
\* exactly 1 and the sum exactly the running sum before the day plus h + 1.
C14_UniformDayRows ==
    \A j \in 1..Len(ImportedEntries(log)) : \A k \in FlowKeys :
        LET entry == ImportedEntries(log)[j]
            daily == DailyOf(j, k)
            each == FDiv(daily, FromInt(24))
            before == RunningAfter(k, j - 1)
            rows == DayRows(k, j)
        IN MinuteDataOf(entry) = <<>> =>
            \A h \in 0..23 :
                LET row == rows[h + 1]
                IN /\ row.start = Midnight(entry.day) + h
                   /\ WithinRoundings(row.state, each, 4)
                   /\ WithinRoundings(row.sum, FAdd(before, FMul(FromInt(h + 1), each)), 32)
                   /\ daily = FromInt(24) =>
                        /\ row.state = FromInt(1)
                        /\ row.sum = FAdd(before, FromInt(h + 1))

\* A finished two-day backfill without power and with a non-zero seed: grid
\* import, 24 a day, has 48 rows of state 1 and sums seed + 1 .. seed + 48.
C14_Witness ==
    /\ pc = "done"
    /\ ~include_power
    /\ imported_days = 2
    /\ seed_sums["gridImport"] = FromInt(41)
    /\ Len(stats["gridImport"]) = 48
    /\ \A i \in 1..48 :
        /\ stats["gridImport"][i].state = FromInt(1)
        /\ stats["gridImport"][i].sum = FromInt(41 + i)
    /\ \E w \in RowSet(sink_writes) : w.has_sum /\ Len(w.rows) = 48

\* ----------------------------------------------------- properties of the loop
\* C15: the sink changes, and series are handed to it, only in the step that
\* ends the handler after the last day of the range was fetched; while the
\* handler is in the loop, and after it was cancelled or ended with an
\* exception there, the sink is as it was when the handler was called.
C15_NoWriteBeforeLoopEnds ==
    [][/\ (sink' # sink \/ (sink_writes' # sink_writes /\ sink_writes' # <<>>)) =>
            /\ pc' = "done"
            /\ current' = end_date' + 1
            /\ LoggedDays(log') = DaysFromTo(start_date', end_date')
       /\ pc' \in {"seed", "loop", "minute", "aborted"} =>
            /\ sink' = sink_before'
            /\ sink_writes' = <<>>]_vars

\* The handler was cancelled in the loop after it had buffered the rows of a
\* day, with days of the range still to come.
C15_Witness ==
    /\ pc = "aborted"
    /\ log # <<>>
    /\ LastLog.energy.kind = "ok"
    /\ LastLog.minute.kind # "error"
    /\ imported_days = 1
    /\ current <= end_date
    /\ stats["gridImport"] # <<>>
    /\ "gridImport" \in DOMAIN sensor_entity_ids
    /\ sink = sink_before

\* C16: whatever way a network call of a day fails (the API error of a failed
\* login or an unsuccessful response, or a timeout, HTTP or transport error),
\* the failure is caught: a failed daily-totals fetch skips the day and the
\* loop goes on with the next day, and a failed minute-sample fetch does not
\* end the handler either.
C16_NetworkFailureSkipsDay ==
    [][DayStep =>
        LET entry == log'[Len(log')]
        IN /\ entry.energy.kind \in {"api_error", "error"} =>
                /\ pc' = IF current' <= end_date THEN "loop" ELSE "done"
                /\ current' = entry.day + 1
                /\ stats' = stats
                /\ imported_days' = imported_days
           /\ entry.minute.kind \in {"api_error", "error"} =>
                pc' \in {"loop", "done"}]_vars

\* ------------------------------------------------- properties of the sink writes
\* The id a power sensor's series goes to: the battery device's rack_power
\* entity for battery power when there is one, else the inverter's entity;
\* <<>> when neither is registered.
ResolvedPowerId(sensor_key) ==
    IF sensor_key = "battery_power" /\ battery_sn # ""
       /\ UniqueId(battery_sn, "rack_power") \in entity_reg
    THEN UniqueId(battery_sn, "rack_power")
    ELSE IF UniqueId(INVERTER_SN, sensor_key) \in entity_reg
    THEN UniqueId(INVERTER_SN, sensor_key)
    ELSE <<>>

\* C17: when a backfill that imported a day ends, a flow whose entity is not
\* registered has no series handed to the sink and its statistics are as
\* before, while every flow whose entity is registered has exactly one
\* series, holding all the rows buffered for it; with include_power the same
\* holds of the power sensors that have buffered rows.
C17_UnresolvedSeriesDropped ==
    (pc = "done" /\ imported_days > 0) =>
        /\ \A k \in FlowKeys :
            LET id == UniqueId(INVERTER_SN, FLOW_TO_SENSOR[k])
            IN IF id \in entity_reg
               THEN /\ Len(WritesFor(id)) = 1
                    /\ WritesFor(id)[1].rows = stats[k]
               ELSE /\ WritesFor(id) = <<>>
                    /\ sink[id] = sink_before[id]
        /\ include_power =>
            \A key \in PowerSensorKeys :
                LET id == ResolvedPowerId(key)
                IN IF id = <<>>
                   THEN /\ WritesFor(UniqueId(INVERTER_SN, key)) = <<>>
                        /\ sink[UniqueId(INVERTER_SN, key)] = sink_before[UniqueId(INVERTER_SN, key)]
                   ELSE power_stats[key] # <<>> =>
                        /\ Len(WritesFor(id)) = 1
                        /\ Len(WritesFor(id)[1].rows) = Len(power_stats[key])

\* A finished backfill with power on an installation where the entities of
\* grid export and of load power are not registered: rows were buffered for
\* both and dropped, and other energy and power series were handed over.
C17_Witness ==
    /\ pc = "done"
    /\ include_power
    /\ entity_reg = RegPartial
    /\ stats["gridExport"] # <<>>
    /\ power_stats["load_power"] # <<>>
    /\ \E n, q \in 1..Len(sink_writes) : sink_writes[n].has_sum /\ ~sink_writes[q].has_sum
    /\ \A n \in 1..Len(sink_writes) :
        sink_writes[n].statistic_id \notin {UniqueId(INVERTER_SN, "grid_export_today"),
                                            UniqueId(INVERTER_SN, "load_power")}

\* The samples of a list whose timestamp lies in the hour that starts at the
\* instant hour_start and that carry the field.
SamplesOfHour(minute_data, field, hour_start) ==
    SelectSeq(minute_data,
              LAMBDA p : /\ HasTs(p)
                         /\ Has(p, field)
                         /\ hour_start * MsPerHour <= p["dataTimeTs"]
                         /\ p["dataTimeTs"] < (hour_start + 1) * MsPerHour)

\* The hours (as instants) in which a list has a sample.
SampledHours(minute_data) ==
    {minute_data[i]["dataTimeTs"] \div MsPerHour :
        i \in {n \in 1..Len(minute_data) : HasTs(minute_data[n])}}

\* Every timestamp of the samples of a logged day lies in the range asked for.
InRequestedDay(entry) ==
    \A i \in 1..Len(MinuteDataOf(entry)) :
        LET p == MinuteDataOf(entry)[i]
        IN HasTs(p) =>
            /\ MidnightMs(entry.day) <= p["dataTimeTs"]
            /\ p["dataTimeTs"] <= MidnightMs(entry.day + 1) - 1

\* C18: when a day is imported with include_power and samples, each power
\* sensor gets, for every hour (full timestamp truncated to the hour) in which
\* at least one sample carries its field, exactly one more row, starting at
\* that hour and with the arithmetic mean of those values as its mean, and no
\* row for any other hour; and as long as all samples lay in the day they were
\* asked for, no two rows buffered for one sensor share a start.
C18_OneMeanPerSampledHour ==
    [][/\ (DayStep /\ include_power /\ MinuteDataOf(log'[Len(log')]) # <<>>) =>
            \A field \in FieldKeys :
                LET minute_data == MinuteDataOf(log'[Len(log')])
                    before == power_stats[MINUTE_FIELD_TO_SENSOR[field]]
                    after == power_stats'[MINUTE_FIELD_TO_SENSOR[field]]
                    added == SubSeq(after, Len(before) + 1, Len(after))
                IN /\ SubSeq(after, 1, Len(before)) = before
                   /\ \A i \in 1..Len(added) : added[i].start \in SampledHours(minute_data)
                   /\ \A hs \in SampledHours(minute_data) :
                        LET points == SamplesOfHour(minute_data, field, hs)
                            at == {i \in 1..Len(added) : added[i].start = hs}
                        IN IF points = <<>> THEN at = {}
                           ELSE /\ Cardinality(at) = 1
                                /\ \A i \in at :
                                    added[i].mean = Dec(FieldTotal(points, field), Len(points))
       /\ (\A n \in 1..Len(log') : InRequestedDay(log'[n])) =>
            \A key \in DOMAIN power_stats' :
                \A i, j \in 1..Len(power_stats'[key]) :
                    i # j => power_stats'[key][i].start # power_stats'[key][j].start]_vars

\* Two days were imported with power, both with samples inside their day:
\* solar power has two rows a day (the third sampled hour has no solar
\* reading), grid power three, and a solar row holds the mean 150 of the
\* readings 100 and 200.
C18_Witness ==
    /\ include_power
    /\ Len(log) = 2
    /\ MinuteDataOf(log[1]) = SamplesA(FirstDay)
    /\ MinuteDataOf(log[2]) = SamplesA(FirstDay + 1)
    /\ Len(power_stats["solar_power"]) = 4
    /\ Len(power_stats["grid_power"]) = 6
    /\ power_stats["solar_power"][1] = [start |-> Midnight(FirstDay) + 1, mean |-> FromInt(150)]
    /\ power_stats["solar_power"][3] = [start |-> Midnight(FirstDay + 1) + 1, mean |-> FromInt(150)]

\* The first day's answer held a sample of the next day's first hour and the
\* next day's answer one of the same hour: solar power has two rows there.
C18_SharedStartOutsideDay ==
    /\ include_power
    /\ Len(log) = 2
    /\ ~InRequestedDay(log[1])
    /\ \E i, j \in 1..Len(power_stats["solar_power"]) :
        /\ i # j
        /\ power_stats["solar_power"][i].start = power_stats["solar_power"][j].start

Ascending(rows) == \A i \in 1..(Len(rows) - 1) : rows[i].start <= rows[i + 1].start

\* C19: every power series handed to the sink has its rows in ascending
\* order of start, also when the rows were buffered in another order.
C19_PowerSeriesAscending ==
    pc = "done" => \A n \in 1..Len(PowerSeries) : Ascending(PowerSeries[n].rows)

\* A finished backfill handed over a power series whose rows were buffered
\* out of order: the cloud returned a later sample before an earlier one.
C19_Witness ==
    /\ pc = "done"
    /\ \E n \in 1..Len(PowerSeries) :
        /\ ~Ascending(power_stats[SensorKeyOf(PowerSeries[n])])
        /\ Len(PowerSeries[n].rows) >= 3
        /\ Ascending(PowerSeries[n].rows)

\* C20: the days answered so far are start_date, start_date + 1, ... in this
\* order, each once; while the handler waits for an answer the day asked for
\* is the one after them, and a finished handler has gone through the whole
\* range; the running sum of every flow is the seed plus the daily values of
\* the days imported so far, added in order, and the first row of each
\* imported day shows the sum_before its day was given: the seed plus the
\* daily values of exactly the days imported before it.
C20_DaysInOrderSumsSequential ==
    /\ \A i \in 1..Len(log) : log[i].day = start_date + i - 1
    /\ pc \in {"loop", "minute"} => (current = start_date + Len(log) /\ current <= end_date)
    /\ (pc = "done" /\ start_date <= end_date) =>
            (Len(log) = end_date - start_date + 1 /\ current = end_date + 1)
    /\ Len(ImportedEntries(log)) = imported_days
    /\ \A k \in FlowKeys :
        /\ running_sums[k] = RunningAfter(k, imported_days)
        /\ Len(stats[k]) = 24 * imported_days
        /\ \A j \in 1..imported_days :
            DayRows(k, j)[1].sum = FAdd(RunningAfter(k, j - 1), DayRows(k, j)[1].state)

\* A finished backfill of a range of two days or more with a non-zero
\* seed, whose first day was skipped and whose later days were imported.
C20_Witness ==
    /\ pc = "done"
    /\ Len(log) >= 2
    /\ start_date < end_date
    /\ log[1].energy.kind = "api_error"
    /\ imported_days = Len(log) - 1
    /\ seed_sums["gridImport"] # Zero
    /\ running_sums["gridImport"] = FAdd(seed_sums["gridImport"], FromInt(24 * imported_days))


\* -------------------------------------------------- properties of include_power
\* C23: in an invocation with include_power off the minute chart is never
\* asked for, every row of every imported day has state daily_value * (1/24),
\* no power row is buffered, and every series handed to the sink is an energy
\* series (kWh, with sums) of a flow; the statistics of the power entities
\* stay as they were.
C23_NoPowerWithoutFlag ==
    ~include_power =>
        /\ pc # "minute"
        /\ \A i \in 1..Len(log) : log[i].minute = NotCalled
        /\ \A j \in 1..Len(ImportedEntries(log)) : \A k \in FlowKeys :
            LET each == FMul(DailyOf(j, k), Dec(1, 24))
                rows == DayRows(k, j)
            IN \A h \in 1..24 : rows[h].state = each
        /\ power_stats = <<>>
        /\ \A n \in 1..Len(sink_writes) :
            /\ sink_writes[n].has_sum
            /\ sink_writes[n].unit = "kWh"
            /\ sink_writes[n].statistic_id \in EnergyIds
        /\ \A id \in AllIds \ EnergyIds : sink[id] = sink_before[id]

\* A finished two-day backfill without power that handed six energy series
\* to the sink.
C23_Witness ==
    /\ pc = "done"
    /\ ~include_power
    /\ imported_days = 2
    /\ Len(sink_writes) = 6
    /\ \A n \in 1..6 : Len(sink_writes[n].rows) = 48


\* ------------------------------------------------- properties of the fractions
\* C24: for every imported day and flow each of the 24 fractions lies in
\* [0, 1], whatever the samples were (solar and load readings below zero
\* included), and no buffered energy row has a negative state (the daily
\* totals being non-negative).
C24_FractionsInUnitInterval ==
    \A j \in 1..Len(ImportedEntries(log)) : \A k \in FlowKeys :
        LET fracs == FracsFor(MinuteDataOf(ImportedEntries(log)[j]), k)
            rows == DayRows(k, j)
        IN \A h \in 1..24 :
            /\ FLe(Zero, fracs[h])
            /\ FLe(fracs[h], FromInt(1))
            /\ FLe(Zero, rows[h].state)


\* ------------------------------------------------- properties of the notice
\* C25: a step that creates a completion notice hands at least one energy
\* series to the sink.
C25_NoticeOnlyAfterEnergyWrite ==
    [][notices' # notices =>
        \E n \in 1..Len(sink_writes') : sink_writes'[n].has_sum]_vars


\* -------------------------------------------------------------- termination
\* C29: when every awaited call returns or fails, a handler that was started
\* ends (returns, or is left by an exception or a cancellation); every loop
\* iteration that ends, on the imported and on the skipped path, moves current
\* on by exactly one day and never past end_date + 1; and a handler called
\* with start_date after end_date asks the cloud for nothing.
C29_HandlerTerminates ==
    /\ (pc = "seed") ~> (pc \in {"done", "aborted"})
    /\ [][(DayStep /\ pc' # "aborted") =>
            /\ current' = current + 1
            /\ current <= end_date
            /\ pc' = IF current' <= end_date THEN "loop" ELSE "done"]_vars
    /\ [](start_date > end_date => (log = <<>> /\ pc \notin {"loop", "minute"}))

\* A handler that went through a two-day range, skipping the first day and
\* importing the second, has ended; so has one called with an empty range.
C29_Witness ==
    /\ pc = "done"
    /\ start_date < end_date
    /\ Len(log) = 2
    /\ log[1].energy.kind = "api_error"
    /\ log[2].energy.kind = "ok"
    /\ current = end_date + 1

\* A handler called with start_date after end_date has ended without a fetch.
C29_WitnessEmptyRange ==
    /\ pc = "done"
    /\ start_date > end_date
    /\ log = <<>>
    /\ sink_writes = <<>>


\* ------------------------------------------------ properties of the cloud client
\* A call of _post was made in this step.
Posted == now' = now /\ (last_post' # last_post \/ token' # token)

\* C21: a call of _post sends its request with the cached token and without
\* a login exactly when a token is cached whose expiry is more than 24 hours
\* ahead of the clock; otherwise it logs in first, and the request it then
\* sends carries the token of that login, which is the one cached from then
\* on; a login that is rejected raises the API error, and a rejected or
\* failed login leaves the cached token as it was and sends no request.
C21_TokenReusedWhileFresh ==
    [][Posted =>
        LET fresh == /\ token.kind = "jwt"
                     /\ token.exp - Seconds(now) > 24 * 3600
            call == last_post'
        IN /\ call.login = "none" <=> fresh
           /\ fresh => /\ token' = token
                       /\ call.access_token = token
                       /\ call.raised = "none"
           /\ call.login = "ok" =>
                /\ token' \in NewTokens(now)
                /\ call.access_token \in {token', NoToken}
                /\ call.access_token = NoToken <=> call.raised # "none"
           /\ call.login = "rejected" => call.raised = "api_error"
           /\ call.login \in {"rejected", "failed"} =>
                /\ token' = token
                /\ call.access_token = NoToken]_vars

\* With a token cached that is less than 24 hours from its expiry, a call
\* of _post was refused the login it needed: the request was not sent and
\* the token is still cached.
C21_Witness ==
    /\ last_post.login = "rejected"
    /\ last_post.raised = "api_error"
    /\ token.kind = "jwt"
    /\ token.exp - Seconds(now) <= 24 * 3600
    /\ token.exp - Seconds(now) > 0

\* A request went out with a token cached by a login at an earlier time.
C21_WitnessReuse ==
    /\ last_post.login = "none"
    /\ last_post.access_token = token
    /\ last_post.at > 0
    /\ token.exp = 2 * DaySeconds


\* --------------------------------------------- properties of the config entries
\* No setup or unload is under way.
Settled == \A e \in EntryIds : entry_state[e] \in {"not_loaded", "loaded"}

C26_WitnessRemoved ==
    /\ Settled
    /\ picked # NoPick
    /\ domain_data = <<>>
    /\ registrations = 0

\* C27: the api and the inverter SN a service call works with come from the
\* same config entry, whichever entries are configured and loaded.
C27_ApiAndSerialOfOneEntry ==
    picked # NoPick => picked.api = picked.inverter_sn


\* ------------------------------------------------- properties of the row starts
\* The hours of a local day: from its midnight to the next.
HoursOfDay(z, d) == Instant(z, d, 0)..(Instant(z, d + 1, 0) - 1)

\* C30: the 24 rows built for a day start at pairwise distinct instants and
\* every hour of the local day, which has 23 or 25 hours when the clocks
\* change, is the start of one of them.
C30_StartsDistinctAndCoverDay ==
    Len(starts) = 24 =>
        /\ \A i, j \in 1..24 : i # j => starts[i] # starts[j]
        /\ HoursOfDay(time_zone, zone_day) \subseteq {starts[i] : i \in 1..24}



\* The running sum of flow k of an invocation working alone from the seed
\* `seed` through the first n cloud answers of lg.
RECURSIVE AloneSums(_, _, _, _)
AloneSums(seed, lg, k, n) ==
    IF n = 0 THEN seed[k]
    ELSE LET before == AloneSums(seed, lg, k, n - 1)
         IN IF lg[n].energy.kind = "ok"
            THEN FAdd(before, DailyValue(lg[n].energy.data, k))
            ELSE before

\* The rows of flow k of an invocation working alone from the seed `seed`
\* through the first n cloud answers of lg.
RECURSIVE AloneRows(_, _, _, _)
AloneRows(seed, lg, k, n) ==
    IF n = 0 THEN <<>>
    ELSE AloneRows(seed, lg, k, n - 1)
         \o (IF lg[n].energy.kind = "ok"
             THEN EnergyRows(lg[n].day, DailyValue(lg[n].energy.data, k), Uniform,
                             AloneSums(seed, lg, k, n - 1))
             ELSE <<>>)

\* What an invocation working alone hands to the sink, given its seed and the
\* cloud's answers.
AloneWrites(seed, lg) ==
    IF \A n \in DOMAIN lg : lg[n].energy.kind # "ok" THEN <<>>
    ELSE EnergySeries(ResolveFlows, [k \in FlowKeys |-> AloneRows(seed, lg, k, Len(lg))], 1)

\* C22: two invocations whose steps interleave do not share running sums or
\* row buffers: a step of one leaves the locals of the other as they were, at
\* every point the sums and rows of each are those it would have working alone
\* with the same seed and the same cloud answers, and so are the records it
\* hands to the sink.
C22_InvocationsKeepTheirOwnLocals ==
    [][\A c \in CallIds :
          /\ calls'[c] # calls[c] => \A d \in CallIds \ {c} : calls'[d] = calls[d]
          /\ \A k \in FlowKeys :
                /\ calls'[c].running_sums[k]
                     = AloneSums(calls'[c].seed_sums, calls'[c].log, k, Len(calls'[c].log))
                /\ calls'[c].stats[k]
                     = AloneRows(calls'[c].seed_sums, calls'[c].log, k, Len(calls'[c].log))
          /\ calls'[c].pc = "done"
                => calls'[c].writes = AloneWrites(calls'[c].seed_sums, calls'[c].log)
      ]_vars

\* Both invocations are in their loops after a cloud answer each, the first
\* with a day's rows buffered, and their running sums differ.
C22_Witness ==
    /\ \A c \in CallIds : calls[c].pc = "loop" /\ calls[c].log # <<>>
    /\ calls[1].imported_days = 1
    /\ calls[1].running_sums # calls[2].running_sums

\* Both invocations have returned after handing records to the sink, the
\* second seeded before the first wrote.
C22_WitnessBothWrote ==
    /\ \A c \in CallIds : calls[c].pc = "done" /\ calls[c].writes # <<>>
    /\ calls[1].start_date < calls[2].start_date
    /\ calls[2].seed_sums
         = SeededSums(PreRangeStats(sink_before, calls[2].start_date,
                                    {ResolveFlows[k] : k \in DOMAIN ResolveFlows}),
                      ResolveFlows, "none")

\* The sink after an invocation with the arguments and cloud answers of `call`
\* has run alone on the sink snk.
AloneRun(snk, call) ==
    LET ids == ResolveFlows
        seed == SeededSums(PreRangeStats(snk, call.start_date, {ids[k] : k \in DOMAIN ids}),
                           ids, "none")
    IN ApplyWrites(snk, AloneWrites(seed, call.log))

\* C28: once two invocations whose seed reads and sink writes interleaved
\* have both returned, the sink is what running them one after the other, in
\* one of the two orders, would have left.
C28_InterleavingsSerialisable ==
    (\A c \in CallIds : calls[c].pc = "done")
        => \/ sink = AloneRun(AloneRun(sink_before, calls[1]), calls[2])
           \/ sink = AloneRun(AloneRun(sink_before, calls[2]), calls[1])

====
